---------------------------- MODULE Spec2Model ----------------------------
(***************************************************************************)
(* focus_scrub: the mapping engine, the audit collector and the column     *)
(* handlers, as a state machine.                                           *)
(*                                                                         *)
(* A Python str is a sequence of one-character strings.  A random draw is  *)
(* a nondeterministic choice: every operation that draws returns the SET   *)
(* of its outcomes, each outcome a record of the value returned and the    *)
(* state left behind.                                                      *)
(***************************************************************************)
EXTENDS Naturals, Sequences, FiniteSets, TLC

(***************************************************************************)
(* Bounds of the model.                                                    *)
(***************************************************************************)
\* how many characters of an alphabet a random draw chooses among
RandWidth == 2
\* how many of the theme x modifier pairs the name generator holds
VocabSize == 2
\* how many calls a run makes
MaxCalls == 3
\* how many map_name calls the run of the name generator makes
MaxNameCalls == 5

(***************************************************************************)
(* Strings.                                                                *)
(***************************************************************************)
Min(a, b) == IF a < b THEN a ELSE b

DIGITS == <<"0", "1", "2", "3", "4", "5", "6", "7", "8", "9">>

ASCII_UPPERCASE ==
    <<"A", "B", "C", "D", "E", "F", "G", "H", "I", "J", "K", "L", "M",
      "N", "O", "P", "Q", "R", "S", "T", "U", "V", "W", "X", "Y", "Z">>

ASCII_LOWERCASE ==
    <<"a", "b", "c", "d", "e", "f", "g", "h", "i", "j", "k", "l", "m",
      "n", "o", "p", "q", "r", "s", "t", "u", "v", "w", "x", "y", "z">>

HEXDIGITS ==
    <<"0", "1", "2", "3", "4", "5", "6", "7", "8", "9",
      "a", "b", "c", "d", "e", "f">>

Range(s) == {s[i] : i \in 1..Len(s)}

isdigit(c) == c \in Range(DIGITS)
isupper(c) == c \in Range(ASCII_UPPERCASE)
islower(c) == c \in Range(ASCII_LOWERCASE)

\* str.isdigit(): non-empty and every character a digit
str_isdigit(s) == Len(s) > 0 /\ \A i \in 1..Len(s) : isdigit(s[i])

RECURSIVE Concat(_)
Concat(ss) == IF ss = <<>> THEN <<>> ELSE Head(ss) \o Concat(Tail(ss))

\* str.join(sep, parts)
RECURSIVE Join(_, _)
Join(sep, parts) ==
    IF parts = <<>> THEN <<>>
    ELSE IF Len(parts) = 1 THEN parts[1]
    ELSE parts[1] \o sep \o Join(sep, Tail(parts))

\* index of the first occurrence of the character c in s at or after i, 0 if none
RECURSIVE FindChar(_, _, _)
FindChar(s, c, i) ==
    IF i > Len(s) THEN 0
    ELSE IF s[i] = c THEN i
    ELSE FindChar(s, c, i + 1)

\* str.split(c) for a one-character separator: always at least one part
RECURSIVE Split(_, _)
Split(s, c) ==
    LET k == FindChar(s, c, 1)
    IN  IF k = 0 THEN <<s>>
        ELSE <<SubSeq(s, 1, k - 1)>> \o Split(SubSeq(s, k + 1, Len(s)), c)

\* str.startswith(p)
startswith(s, p) == Len(s) >= Len(p) /\ SubSeq(s, 1, Len(p)) = p

\* str(n) of a natural number
RECURSIVE NatToStr(_)
NatToStr(n) ==
    IF n < 10 THEN <<DIGITS[n + 1]>>
    ELSE NatToStr(n \div 10) \o <<DIGITS[(n % 10) + 1]>>

(***************************************************************************)
(* Random draws.                                                           *)
(***************************************************************************)
\* random.choice(alphabet): the draw is enumerated over RandWidth characters
\* of the alphabet, taken alternately from its two ends
RandomChoice(alphabet) ==
    LET n  == Len(alphabet)
        k  == Min(RandWidth, n)
        lo == (k + 1) \div 2
        hi == k \div 2
    IN  {alphabet[i] : i \in 1..lo} \cup {alphabet[n + 1 - i] : i \in 1..hi}

\* random.choices(alphabet, k=k), joined: of the strings of length k over the
\* drawn characters, those whose k draws come out alike
RandomChoices(alphabet, k) ==
    IF k <= 0 THEN {<<>>}
    ELSE {[i \in 1..k |-> c] : c \in RandomChoice(alphabet)}

\* random.shuffle(s): every permutation of s
Shuffles(s) ==
    LET n == Len(s)
    IN  {[i \in 1..n |-> s[p[i]]] :
            p \in {q \in [1..n -> 1..n] : \A i, j \in 1..n : q[i] = q[j] => i = j}}

(***************************************************************************)
(* Python dict as a function.                                              *)
(***************************************************************************)
EmptyDict == [k \in {} |-> <<>>]

\* d[k] = v
DictSet(d, k, v) == [x \in (DOMAIN d) \cup {k} |-> IF x = k THEN v ELSE d[x]]

\* d.update(other): the keys of other are written, over what d holds
DictUpdate(d, other) ==
    [x \in (DOMAIN d) \cup (DOMAIN other) |->
        IF x \in DOMAIN other THEN other[x] ELSE d[x]]

(***************************************************************************)
(* mapping/engine.py                                                       *)
(***************************************************************************)
\* a _random_digits whose leading digit is drawn from all ten digits
_random_digits_any_first(length) ==
    IF length <= 0 THEN {<<>>}
    ELSE {<<first>> \o rest :
              first \in RandomChoice(DIGITS),
              rest \in RandomChoices(DIGITS, length - 1)}

\* _random_digits(length): the outcomes of the draw
_random_digits(length) ==
    IF length <= 0 THEN {<<>>}
    ELSE {<<first>> \o rest :
              first \in RandomChoice(Tail(DIGITS)),
              rest \in RandomChoices(DIGITS, length - 1)}

\* str(uuid.uuid4()): 8-4-4-4-12 lowercase hex, version nibble 4, variant
\* nibble one of 8, 9, a, b
uuid4 ==
    {Join(<<"-">>,
          <<SubSeq(h, 1, 8),
            SubSeq(h, 9, 12),
            <<"4">> \o SubSeq(h, 13, 15),
            <<v>> \o SubSeq(h, 16, 18),
            SubSeq(h, 19, 30)>>) :
        h \in RandomChoices(HEXDIGITS, 30),
        v \in RandomChoice(<<"8", "9", "a", "b">>)}

STELLAR_TERMS ==
    <<<<"M", "o", "o", "n">>,
      <<"R", "o", "c", "k", "e", "t">>>>

GREEK_LETTERS ==
    <<<<"A", "l", "p", "h", "a">>,
      <<"B", "e", "t", "a">>,
      <<"G", "a", "m", "m", "a">>,
      <<"D", "e", "l", "t", "a">>>>

\* all_combinations, term-major as the list comprehension builds it, cut to
\* its first VocabSize pairs
all_combinations ==
    LET nl == Len(GREEK_LETTERS)
    IN  [i \in 1..VocabSize |->
            <<STELLAR_TERMS[((i - 1) \div nl) + 1], GREEK_LETTERS[((i - 1) % nl) + 1]>>]

\* the generator object before its first next()
NewNameGenerator == [order |-> <<>>, pos |-> 0, count |-> 0]

\* a name format without the numeric suffix
FormatName_no_count(pair, count) == pair[1] \o <<" ">> \o pair[2]

\* f"{term} {letter}" while count = 0, f"{term} {letter} {count}" after
FormatName(pair, count) ==
    IF count = 0 THEN pair[1] \o <<" ">> \o pair[2]
    ELSE pair[1] \o <<" ">> \o pair[2] \o <<" ">> \o NatToStr(count)

\* next(gen) of _stellar_name_generator: pos = 0 is the generator not yet
\* started; pos is otherwise the index of the pair last yielded
_stellar_name_generator(gen) ==
    IF gen.pos = 0
    THEN {[ret |-> FormatName(p[1], 0),
           gen |-> [order |-> p, pos |-> 1, count |-> 0]] :
              p \in Shuffles(all_combinations)}
    ELSE IF gen.pos < Len(gen.order)
    THEN {[ret |-> FormatName(gen.order[gen.pos + 1], gen.count),
           gen |-> [gen EXCEPT !.pos = gen.pos + 1]]}
    ELSE {[ret |-> FormatName(p[1], gen.count + 1),
           gen |-> [order |-> p, pos |-> 1, count |-> gen.count + 1]] :
              p \in Shuffles(gen.order)}

\* MappingEngine.__init__
MappingEngine ==
    [number_id_map    |-> EmptyDict,
     uuid_map         |-> EmptyDict,
     name_map         |-> EmptyDict,
     profile_code_map |-> EmptyDict,
     name_generator   |-> NewNameGenerator]

\* a map_number_id that draws without looking the value up
map_number_id_regenerate(eng, value) ==
    {[ret |-> replacement,
      eng |-> [eng EXCEPT !.number_id_map = DictSet(@, value, replacement)]] :
         replacement \in _random_digits(Len(value))}

\* MappingEngine.map_number_id: the outcomes [ret, eng]
map_number_id(eng, value) ==
    IF value \in DOMAIN eng.number_id_map
    THEN {[ret |-> eng.number_id_map[value], eng |-> eng]}
    ELSE {[ret |-> replacement,
           eng |-> [eng EXCEPT !.number_id_map = DictSet(@, value, replacement)]] :
              replacement \in _random_digits(Len(value))}

\* MappingEngine.map_uuid
map_uuid(eng, value) ==
    IF value \in DOMAIN eng.uuid_map
    THEN {[ret |-> eng.uuid_map[value], eng |-> eng]}
    ELSE {[ret |-> replacement,
           eng |-> [eng EXCEPT !.uuid_map = DictSet(@, value, replacement)]] :
              replacement \in uuid4}

\* MappingEngine.map_name
map_name(eng, value) ==
    IF value \in DOMAIN eng.name_map
    THEN {[ret |-> eng.name_map[value], eng |-> eng]}
    ELSE {[ret |-> n.ret,
           eng |-> [eng EXCEPT !.name_map = DictSet(@, value, n.ret),
                               !.name_generator = n.gen]] :
              n \in _stellar_name_generator(eng.name_generator)}

\* one random segment per segment of the code, each of the segment's length
RECURSIVE RandomSegments(_)
RandomSegments(segments) ==
    IF segments = <<>> THEN {<<>>}
    ELSE {<<seg>> \o rest :
              seg \in RandomChoices(ASCII_UPPERCASE \o DIGITS, Len(Head(segments))),
              rest \in RandomSegments(Tail(segments))}

\* a map_profile_code that draws one segment of the length of the whole code
map_profile_code_flat(eng, value) ==
    IF value \in DOMAIN eng.profile_code_map
    THEN {[ret |-> eng.profile_code_map[value], eng |-> eng]}
    ELSE {[ret |-> replacement,
           eng |-> [eng EXCEPT !.profile_code_map = DictSet(@, value, replacement)]] :
              replacement \in RandomChoices(ASCII_UPPERCASE \o DIGITS, Len(value))}

\* MappingEngine.map_profile_code
map_profile_code(eng, value) ==
    IF value \in DOMAIN eng.profile_code_map
    THEN {[ret |-> eng.profile_code_map[value], eng |-> eng]}
    ELSE {[ret |-> Join(<<"-">>, random_segments),
           eng |-> [eng EXCEPT !.profile_code_map =
                                   DictSet(@, value, Join(<<"-">>, random_segments))]] :
              random_segments \in RandomSegments(Split(value, "-"))}

\* MappingEngine.get_all_mappings
get_all_mappings(eng) ==
    [NumberId    |-> eng.number_id_map,
     UUID        |-> eng.uuid_map,
     Name        |-> eng.name_map,
     ProfileCode |-> eng.profile_code_map]

\* a load_mappings that leaves the profile codes out
load_mappings_no_profile_code(eng, mappings) ==
    [eng EXCEPT
        !.number_id_map =
            IF "NumberId" \in DOMAIN mappings THEN DictUpdate(@, mappings["NumberId"]) ELSE @,
        !.uuid_map =
            IF "UUID" \in DOMAIN mappings THEN DictUpdate(@, mappings["UUID"]) ELSE @,
        !.name_map =
            IF "Name" \in DOMAIN mappings THEN DictUpdate(@, mappings["Name"]) ELSE @]

\* MappingEngine.load_mappings: mappings is a dict that may lack any of the keys
load_mappings(eng, mappings) ==
    [eng EXCEPT
        !.number_id_map =
            IF "NumberId" \in DOMAIN mappings THEN DictUpdate(@, mappings["NumberId"]) ELSE @,
        !.uuid_map =
            IF "UUID" \in DOMAIN mappings THEN DictUpdate(@, mappings["UUID"]) ELSE @,
        !.name_map =
            IF "Name" \in DOMAIN mappings THEN DictUpdate(@, mappings["Name"]) ELSE @,
        !.profile_code_map =
            IF "ProfileCode" \in DOMAIN mappings
            THEN DictUpdate(@, mappings["ProfileCode"]) ELSE @]

(***************************************************************************)
(* mapping/collector.py                                                    *)
(***************************************************************************)
\* MappingCollector.__init__
MappingCollector == [mappings |-> EmptyDict, seen |-> EmptyDict]

\* a record that appends without looking at what it has seen
record_no_dedup(col, column_name, original, replacement) ==
    LET c1 == IF column_name \notin DOMAIN col.mappings
              THEN [mappings |-> DictSet(col.mappings, column_name, <<>>),
                    seen     |-> DictSet(col.seen, column_name, {})]
              ELSE col
    IN  [mappings |-> [c1.mappings EXCEPT
                          ![column_name] = Append(@, <<original, replacement>>)],
         seen     |-> [c1.seen EXCEPT ![column_name] = @ \cup {original}]]

\* MappingCollector.record
record(col, column_name, original, replacement) ==
    LET c1 == IF column_name \notin DOMAIN col.mappings
              THEN [mappings |-> DictSet(col.mappings, column_name, <<>>),
                    seen     |-> DictSet(col.seen, column_name, {})]
              ELSE col
    IN  IF original \notin c1.seen[column_name]
        THEN [mappings |-> [c1.mappings EXCEPT
                               ![column_name] = Append(@, <<original, replacement>>)],
              seen     |-> [c1.seen EXCEPT ![column_name] = @ \cup {original}]]
        ELSE c1

\* MappingCollector.to_dict
to_dict(col) == col.mappings

(***************************************************************************)
(* Cell values.  A cell is a str, a missing value (None, pd.NA), or, in a  *)
(* Tags column, a list of (key, value) tuples or a dict.                   *)
(***************************************************************************)
None == [kind |-> "None"]
NA == [kind |-> "NA"]
Str(s) == [kind |-> "str", val |-> s]
\* a list of (key, value) tuples and a dict, both as the sequence of their pairs
List(pairs) == [kind |-> "list", val |-> pairs]
Dict(pairs) == [kind |-> "dict", val |-> pairs]

\* pd.isna(value) of a scalar
isna(value) == value.kind \in {"None", "NA"}

WHITESPACE == {" ", "\t", "\n"}

\* str.strip()
RECURSIVE strip(_)
strip(s) ==
    IF s = <<>> THEN s
    ELSE IF Head(s) \in WHITESPACE THEN strip(Tail(s))
    ELSE IF s[Len(s)] \in WHITESPACE THEN strip(SubSeq(s, 1, Len(s) - 1))
    ELSE s

\* repr() of a str that holds no quote and no backslash
repr_str(s) == <<"'">> \o s \o <<"'">>

\* str() of a list of 2-tuples of str: [('k', 'v'), ('k2', 'v2')]
str_list(pairs) ==
    <<"[">>
    \o Join(<<",", " ">>,
            [i \in 1..Len(pairs) |->
                <<"(">> \o repr_str(pairs[i][1]) \o <<",", " ">>
                       \o repr_str(pairs[i][2]) \o <<")">>])
    \o <<"]">>

\* str() of a dict of str to str: {'k': 'v', 'k2': 'v2'}
str_dict(pairs) ==
    <<"{">>
    \o Join(<<",", " ">>,
            [i \in 1..Len(pairs) |->
                repr_str(pairs[i][1]) \o <<":", " ">> \o repr_str(pairs[i][2])])
    \o <<"}">>

\* str(value) of a cell
py_str(value) ==
    CASE value.kind = "str"  -> value.val
      [] value.kind = "None" -> <<"N", "o", "n", "e">>
      [] value.kind = "NA"   -> <<"<", "N", "A", ">">>
      [] value.kind = "list" -> str_list(value.val)
      [] value.kind = "dict" -> str_dict(value.val)

(***************************************************************************)
(* handlers.py: the regular expressions of the account id handler.         *)
(***************************************************************************)
\* \w
IsWord(c) == isdigit(c) \/ isupper(c) \/ islower(c) \/ c = "_"

\* \b between s[i-1] and s[i], for i in 1..Len(s)+1
Boundary(s, i) ==
    (i > 1 /\ IsWord(s[i - 1])) # (i <= Len(s) /\ IsWord(s[i]))

\* [0-9a-f] under re.IGNORECASE
IsHex(c) == isdigit(c) \/ c \in {"a", "b", "c", "d", "e", "f", "A", "B", "C", "D", "E", "F"}

\* [A-Z0-9]
IsCodeChar(c) == isupper(c) \/ isdigit(c)

\* _12DIGIT_ACCOUNT_ID_RE = \b\d{12}\b: the length of its match at i, 0 if none
Match12Digit(s, i) ==
    IF /\ i + 11 <= Len(s)
       /\ \A k \in 0..11 : isdigit(s[i + k])
       /\ Boundary(s, i)
       /\ Boundary(s, i + 12)
    THEN 12 ELSE 0

\* _UUID_RE = [0-9a-f]{8}-[0-9a-f]{4}-[0-9a-f]{4}-[0-9a-f]{4}-[0-9a-f]{12}
MatchUuid(s, i) ==
    IF /\ i + 35 <= Len(s)
       /\ \A k \in 0..35 :
              IF k \in {8, 13, 18, 23} THEN s[i + k] = "-" ELSE IsHex(s[i + k])
    THEN 36 ELSE 0

\* the length of the run of [A-Z0-9] that starts at i
RECURSIVE CodeRun(_, _)
CodeRun(s, i) ==
    IF i > Len(s) \/ ~IsCodeChar(s[i]) THEN 0 ELSE 1 + CodeRun(s, i + 1)

\* (?:-[A-Z0-9]{3,4}){2,}\b after n segments, a segment starting at i: the
\* index after the match the greedy search settles on, 0 if there is none.
\* A segment is a whole run of 3 or 4 characters: a shorter take of a longer
\* run is followed by a word character, neither "-" nor a boundary.
RECURSIVE CodeChainEnd(_, _, _)
CodeChainEnd(s, i, n) ==
    LET r == CodeRun(s, i)
        j == i + r
        further == IF j <= Len(s) /\ s[j] = "-" THEN CodeChainEnd(s, j + 1, n + 1) ELSE 0
    IN  IF r \notin {3, 4} THEN 0
        ELSE IF further # 0 THEN further
        ELSE IF n + 1 >= 3 /\ Boundary(s, j) THEN j
        ELSE 0

\* _PROFILE_CODE_RE = \b[A-Z0-9]{3,4}(?:-[A-Z0-9]{3,4}){2,}\b
MatchProfileCode(s, i) ==
    IF ~Boundary(s, i) THEN 0
    ELSE LET e == CodeChainEnd(s, i, 0) IN IF e = 0 THEN 0 ELSE e - i

MatchLen(re, s, i) ==
    CASE re = "_12DIGIT_ACCOUNT_ID_RE" -> Match12Digit(s, i)
      [] re = "_UUID_RE"               -> MatchUuid(s, i)
      [] re = "_PROFILE_CODE_RE"       -> MatchProfileCode(s, i)

\* the first position from i on where the pattern matches, 0 if none
RECURSIVE NextMatch(_, _, _)
NextMatch(re, s, i) ==
    IF i > Len(s) THEN 0
    ELSE IF MatchLen(re, s, i) > 0 THEN i
    ELSE NextMatch(re, s, i + 1)

\* re.search(value) is not None
Search(re, s) == NextMatch(re, s, 1) > 0

\* every pattern's match replaced through map_uuid
Replace_through_map_uuid(re, eng, match) == map_uuid(eng, match)

\* replace_account_id, replace_uuid, replace_profile_code: the engine call
\* each pattern's match is replaced through
Replace(re, eng, match) ==
    CASE re = "_12DIGIT_ACCOUNT_ID_RE" -> map_number_id(eng, match)
      [] re = "_UUID_RE"               -> map_uuid(eng, match)
      [] re = "_PROFILE_CODE_RE"       -> map_profile_code(eng, match)

\* re.sub(replace, s) from position i on: the matches are found left to right
\* in s, without overlap, and each is replaced as it is found
RECURSIVE SubFrom(_, _, _, _)
SubFrom(re, eng, s, i) ==
    LET j == NextMatch(re, s, i)
        n == MatchLen(re, s, j)
    IN  IF j = 0 THEN {[ret |-> SubSeq(s, i, Len(s)), eng |-> eng]}
        ELSE UNION {{[ret |-> SubSeq(s, i, j - 1) \o m.ret \o r.ret, eng |-> r.eng] :
                        r \in SubFrom(re, m.eng, s, j + n)} :
                           m \in Replace(re, eng, SubSeq(s, j, j + n - 1))}

Sub(re, eng, s) == SubFrom(re, eng, s, 1)

(***************************************************************************)
(* handlers.py: AccountIdHandler, StellarNameHandler,                      *)
(* CommitmentDiscountIdHandler.  A scrub returns the outcomes              *)
(* [ret, eng, cm, rec]: the value returned, the engine and the handler's   *)
(* character map after the call, and the (original, replacement) handed    *)
(* to the collector, None when the call reaches no record.                 *)
(***************************************************************************)
\* AccountIdHandler._scrub_value
\* a _scrub_value whose UUID pass runs before its 12-digit pass
AccountIdHandler_scrub_value_uuid_first(eng, value) ==
    IF str_isdigit(value) THEN map_number_id(eng, value)
    ELSE IF \/ Search("_UUID_RE", value)
            \/ Search("_PROFILE_CODE_RE", value)
            \/ Search("_12DIGIT_ACCOUNT_ID_RE", value)
    THEN UNION {UNION {Sub("_PROFILE_CODE_RE", r2.eng, r2.ret) :
                          r2 \in Sub("_12DIGIT_ACCOUNT_ID_RE", r1.eng, r1.ret)} :
                             r1 \in Sub("_UUID_RE", eng, value)}
    ELSE map_uuid(eng, value)

AccountIdHandler_scrub_value(eng, value) ==
    IF str_isdigit(value) THEN map_number_id(eng, value)
    ELSE IF \/ Search("_UUID_RE", value)
            \/ Search("_PROFILE_CODE_RE", value)
            \/ Search("_12DIGIT_ACCOUNT_ID_RE", value)
    THEN UNION {UNION {Sub("_PROFILE_CODE_RE", r2.eng, r2.ret) :
                          r2 \in Sub("_UUID_RE", r1.eng, r1.ret)} :
                             r1 \in Sub("_12DIGIT_ACCOUNT_ID_RE", eng, value)}
    ELSE map_uuid(eng, value)

\* an AccountIdHandler.scrub without the NA check
AccountIdHandler_scrub_no_na_check(eng, cm, value) ==
    LET original == strip(py_str(value))
    IN  {[ret |-> Str(r.ret), eng |-> r.eng, cm |-> cm, rec |-> <<original, r.ret>>] :
            r \in AccountIdHandler_scrub_value(eng, original)}

\* AccountIdHandler.scrub
\* a scrub that reports the original in place of the replacement
AccountIdHandler_scrub_record_original(eng, cm, value) ==
    IF isna(value) THEN {[ret |-> value, eng |-> eng, cm |-> cm, rec |-> None]}
    ELSE LET original == strip(py_str(value))
         IN  {[ret |-> Str(r.ret), eng |-> r.eng, cm |-> cm, rec |-> <<original, original>>] :
                 r \in AccountIdHandler_scrub_value(eng, original)}

AccountIdHandler_scrub(eng, cm, value) ==
    IF isna(value) THEN {[ret |-> value, eng |-> eng, cm |-> cm, rec |-> None]}
    ELSE LET original == strip(py_str(value))
         IN  {[ret |-> Str(r.ret), eng |-> r.eng, cm |-> cm, rec |-> <<original, r.ret>>] :
                 r \in AccountIdHandler_scrub_value(eng, original)}

\* StellarNameHandler.scrub
StellarNameHandler_scrub(eng, cm, value) ==
    IF isna(value) THEN {[ret |-> value, eng |-> eng, cm |-> cm, rec |-> None]}
    ELSE LET original == strip(py_str(value))
         IN  {[ret |-> Str(r.ret), eng |-> r.eng, cm |-> cm, rec |-> <<original, r.ret>>] :
                 r \in map_name(eng, original)}

\* a CommitmentDiscountIdHandler.scrub that maps every value as an opaque
\* string
CommitmentDiscountIdHandler_scrub_opaque(eng, cm, value) ==
    IF isna(value) THEN {[ret |-> value, eng |-> eng, cm |-> cm, rec |-> None]}
    ELSE {[ret |-> Str(r.ret), eng |-> r.eng, cm |-> cm,
           rec |-> <<strip(py_str(value)), r.ret>>] :
              r \in map_uuid(eng, strip(py_str(value)))}

\* CommitmentDiscountIdHandler.scrub: its own AccountIdHandler on the same
\* engine, attached to the same column and collector
CommitmentDiscountIdHandler_scrub(eng, cm, value) == AccountIdHandler_scrub(eng, cm, value)

(***************************************************************************)
(* handlers.py: ResourceIdHandler.                                         *)
(***************************************************************************)
\* ResourceIdHandler._get_char_mapping: the outcomes [ret, cm]
\* a _get_char_mapping that draws again for a character it has seen
_get_char_mapping_redraw(cm, char) ==
    LET drawn == IF isupper(char) THEN RandomChoice(ASCII_UPPERCASE)
                 ELSE IF islower(char) THEN RandomChoice(ASCII_LOWERCASE)
                 ELSE IF isdigit(char) THEN RandomChoice(DIGITS)
                 ELSE {char}
    IN  {[ret |-> c, cm |-> DictSet(cm, char, c)] : c \in drawn}

_get_char_mapping(cm, char) ==
    IF char \in DOMAIN cm THEN {[ret |-> cm[char], cm |-> cm]}
    ELSE LET drawn == IF isupper(char) THEN RandomChoice(ASCII_UPPERCASE)
                      ELSE IF islower(char) THEN RandomChoice(ASCII_LOWERCASE)
                      ELSE IF isdigit(char) THEN RandomChoice(DIGITS)
                      ELSE {char}
         IN  {[ret |-> c, cm |-> DictSet(cm, char, c)] : c \in drawn}

\* ResourceIdHandler._scramble_string: the outcomes [ret, cm]
RECURSIVE _scramble_string(_, _)
_scramble_string(cm, value) ==
    IF value = <<>> THEN {[ret |-> <<>>, cm |-> cm]}
    ELSE UNION {{[ret |-> <<m.ret>> \o r.ret, cm |-> r.cm] :
                    r \in _scramble_string(m.cm, Tail(value))} :
                       m \in _get_char_mapping(cm, Head(value))}

\* the strings _UUID_PATTERN.finditer(s) yields from position i on
RECURSIVE FindUuids(_, _)
FindUuids(s, i) ==
    IF i > Len(s) THEN <<>>
    ELSE IF MatchUuid(s, i) = 0 THEN FindUuids(s, i + 1)
    ELSE <<SubSeq(s, i, i + 35)>> \o FindUuids(s, i + 36)

\* str.replace(old, new): every occurrence of old, left to right
RECURSIVE str_replace(_, _, _)
str_replace(s, old, new) ==
    IF Len(s) < Len(old) \/ old = <<>> THEN s
    ELSE IF SubSeq(s, 1, Len(old)) = old
    THEN new \o str_replace(SubSeq(s, Len(old) + 1, Len(s)), old, new)
    ELSE <<Head(s)>> \o str_replace(Tail(s), old, new)

\* for match in _UUID_PATTERN.finditer(...): replacement = map_uuid(match);
\* text = text.replace(match, replacement) -- the matches are those of the
\* string the loop started with; the outcomes [ret, eng]
RECURSIVE ReplaceUuids(_, _, _)
ReplaceUuids(eng, text, matches) ==
    IF matches = <<>> THEN {[ret |-> text, eng |-> eng]}
    ELSE UNION {ReplaceUuids(m.eng, str_replace(text, Head(matches), m.ret), Tail(matches)) :
                   m \in map_uuid(eng, Head(matches))}

aws_resource_types ==
    {<<"l", "o", "a", "d", "b", "a", "l", "a", "n", "c", "e", "r">>,
     <<"l", "o", "g", "-", "g", "r", "o", "u", "p">>,
     <<"t", "a", "s", "k">>,
     <<"c", "l", "u", "s", "t", "e", "r">>,
     <<"n", "a", "t", "g", "a", "t", "e", "w", "a", "y">>,
     <<"h", "o", "s", "t", "e", "d", "z", "o", "n", "e">>,
     <<"t", "a", "b", "l", "e">>,
     <<"f", "u", "n", "c", "t", "i", "o", "n">>,
     <<"d", "i", "s", "t", "r", "i", "b", "u", "t", "i", "o", "n">>,
     <<"s", "t", "r", "e", "a", "m">>,
     <<"s", "e", "c", "u", "r", "i", "t", "y", "-", "g", "r", "o", "u", "p">>,
     <<"n", "e", "t", "w", "o", "r", "k", "-", "i", "n", "t", "e", "r", "f", "a", "c", "e">>,
     <<"v", "o", "l", "u", "m", "e">>,
     <<"s", "n", "a", "p", "s", "h", "o", "t">>}

\* the slash parts of an ARN's resource from index i (0-based) on: a known
\* resource type in front and "net" / "app" anywhere are kept, the rest is
\* scrambled; the outcomes [ret, cm], ret the list of parts
\* a loop that keeps a known resource type wherever it stands
RECURSIVE ScrambleSlashParts_any_position(_, _, _)
ScrambleSlashParts_any_position(cm, slash_parts, i) ==
    IF slash_parts = <<>> THEN {[ret |-> <<>>, cm |-> cm]}
    ELSE LET part == Head(slash_parts)
             this == IF part \in aws_resource_types \cup {<<"n", "e", "t">>, <<"a", "p", "p">>}
                     THEN {[ret |-> part, cm |-> cm]}
                     ELSE _scramble_string(cm, part)
         IN  UNION {{[ret |-> <<m.ret>> \o r.ret, cm |-> r.cm] :
                        r \in ScrambleSlashParts_any_position(m.cm, Tail(slash_parts), i + 1)} :
                           m \in this}

RECURSIVE ScrambleSlashParts(_, _, _)
ScrambleSlashParts(cm, slash_parts, i) ==
    IF slash_parts = <<>> THEN {[ret |-> <<>>, cm |-> cm]}
    ELSE LET part == Head(slash_parts)
             this == IF i = 0 /\ part \in aws_resource_types
                     THEN {[ret |-> part, cm |-> cm]}
                     ELSE IF part \in {<<"n", "e", "t">>, <<"a", "p", "p">>}
                     THEN {[ret |-> part, cm |-> cm]}
                     ELSE _scramble_string(cm, part)
         IN  UNION {{[ret |-> <<m.ret>> \o r.ret, cm |-> r.cm] :
                        r \in ScrambleSlashParts(m.cm, Tail(slash_parts), i + 1)} :
                           m \in this}

\* an account test that forgets the length
IsAccountPart_any_length(account_part) ==
    account_part # <<>> /\ str_isdigit(account_part)

\* account_part and account_part.isdigit() and len(account_part) == 12
IsAccountPart(account_part) ==
    account_part # <<>> /\ str_isdigit(account_part) /\ Len(account_part) = 12

\* ResourceIdHandler._scrub_arn: the outcomes [ret, eng, cm]
_scrub_arn(eng, cm, value) ==
    LET parts == Split(value, ":")
    IN  IF Len(parts) < 6
        THEN {[ret |-> r.ret, eng |-> eng, cm |-> r.cm] : r \in _scramble_string(cm, value)}
        ELSE
        LET prefix_parts    == SubSeq(parts, 1, 4)
            resource_string == Join(<<":">>, SubSeq(parts, 6, Len(parts)))
            accounts ==
                IF IsAccountPart(parts[5])
                THEN map_number_id(eng, parts[5])
                ELSE {[ret |-> parts[5], eng |-> eng]}
        IN  UNION {UNION {
                {[ret |-> Join(<<":">>,
                               prefix_parts \o <<a.ret>>
                                   \o (IF Join(<<"/">>, sp.ret) # <<>>
                                       THEN <<Join(<<"/">>, sp.ret)>> ELSE <<>>)),
                  eng |-> u.eng,
                  cm  |-> sp.cm] :
                    sp \in IF u.ret # <<>>
                           THEN ScrambleSlashParts(cm, Split(u.ret, "/"), 0)
                           ELSE {[ret |-> <<>>, cm |-> cm]}} :
                        u \in ReplaceUuids(a.eng, resource_string,
                                           FindUuids(resource_string, 1))} :
                            a \in accounts}

\* a test that takes any segment for a subscription id
IsSubscriptionId_any_shape(next_part) == TRUE

\* self._UUID_PATTERN.match(next_part)
IsSubscriptionId(next_part) == MatchUuid(next_part, 1) > 0

\* the while loop of _scrub_azure_resource_id from index i (1-based) on: the
\* outcomes [ret, eng, cm], ret the list of scrubbed parts
RECURSIVE AzureParts(_, _, _, _)
AzureParts(eng, cm, parts, i) ==
    IF i > Len(parts) THEN {[ret |-> <<>>, eng |-> eng, cm |-> cm]}
    ELSE
    LET part == parts[i]
        Then(heads, step) ==
            UNION {{[ret |-> h.ret \o r.ret, eng |-> r.eng, cm |-> r.cm] :
                       r \in AzureParts(h.eng, h.cm, parts, i + step)} : h \in heads}
    IN  IF part = <<>>
        THEN Then({[ret |-> <<part>>, eng |-> eng, cm |-> cm]}, 1)
        ELSE IF part \in {<<"s", "u", "b", "s", "c", "r", "i", "p", "t", "i", "o", "n", "s">>,
                          <<"r", "e", "s", "o", "u", "r", "c", "e", "g", "r", "o", "u", "p", "s">>,
                          <<"p", "r", "o", "v", "i", "d", "e", "r", "s">>}
        THEN IF i + 1 <= Len(parts)
             THEN IF part = <<"s", "u", "b", "s", "c", "r", "i", "p", "t", "i", "o", "n", "s">> /\ IsSubscriptionId(parts[i + 1])
                  THEN Then({[ret |-> <<part, m.ret>>, eng |-> m.eng, cm |-> cm] :
                                m \in map_uuid(eng, parts[i + 1])}, 2)
                  ELSE IF part = <<"r", "e", "s", "o", "u", "r", "c", "e", "g", "r", "o", "u", "p", "s">>
                  THEN Then({[ret |-> <<part, m.ret>>, eng |-> eng, cm |-> m.cm] :
                                m \in _scramble_string(cm, parts[i + 1])}, 2)
                  ELSE IF part = <<"p", "r", "o", "v", "i", "d", "e", "r", "s">>
                  THEN Then({[ret |-> <<part, parts[i + 1]>>, eng |-> eng, cm |-> cm]}, 2)
                  ELSE Then({[ret |-> <<part>>, eng |-> eng, cm |-> cm]}, 1)
             ELSE Then({[ret |-> <<part>>, eng |-> eng, cm |-> cm]}, 1)
        ELSE IF startswith(part, <<"m", "i", "c", "r", "o", "s", "o", "f", "t", ".">>)
        THEN Then({[ret |-> <<part>>, eng |-> eng, cm |-> cm]}, 1)
        ELSE IF \E k \in 1..Len(part) : MatchUuid(part, k) > 0
        THEN Then({[ret |-> <<u.ret>>, eng |-> u.eng, cm |-> cm] :
                      u \in ReplaceUuids(eng, part, FindUuids(part, 1))}, 1)
        ELSE Then({[ret |-> <<m.ret>>, eng |-> eng, cm |-> m.cm] :
                      m \in _scramble_string(cm, part)}, 1)

\* a _scrub_azure_resource_id whose loop stops one part early
_scrub_azure_resource_id_short(eng, cm, value) ==
    LET parts == Split(value, "/")
    IN  {[ret |-> Join(<<"/">>, SubSeq(r.ret, 1, Len(r.ret) - 1)), eng |-> r.eng, cm |-> r.cm] :
            r \in AzureParts(eng, cm, parts, 1)}

\* ResourceIdHandler._scrub_azure_resource_id: the outcomes [ret, eng, cm]
_scrub_azure_resource_id(eng, cm, value) ==
    LET parts == Split(value, "/")
    IN  IF Len(parts) < 3
        THEN {[ret |-> r.ret, eng |-> eng, cm |-> r.cm] : r \in _scramble_string(cm, value)}
        ELSE {[ret |-> Join(<<"/">>, r.ret), eng |-> r.eng, cm |-> r.cm] :
                 r \in AzureParts(eng, cm, parts, 1)}

\* a _scrub_oci_resource_id that scrambles the whole value
_scrub_oci_resource_id_flat(cm, value) == _scramble_string(cm, value)

\* ResourceIdHandler._scrub_oci_resource_id: the outcomes [ret, cm]
_scrub_oci_resource_id(cm, value) ==
    IF startswith(value, <<"o", "c", "i", "_">>) /\ FindChar(value, ".", 1) = 0
    THEN \* value.split("_", 1) has two parts: the text starts with "oci_"
         {[ret |-> <<"o", "c", "i", "_">> \o r.ret, cm |-> r.cm] :
             r \in _scramble_string(cm, SubSeq(value, 5, Len(value)))}
    ELSE IF ~startswith(value, <<"o", "c", "i", "d", "1", ".">>) THEN _scramble_string(cm, value)
    ELSE LET parts == Split(value, ".")
         IN  IF Len(parts) < 5 THEN _scramble_string(cm, value)
             ELSE UNION {{[ret |-> Join(<<".">>, <<parts[1], t.ret, parts[3], parts[4], u.ret>>),
                           cm  |-> u.cm] :
                             u \in _scramble_string(
                                       t.cm, Join(<<".">>, SubSeq(parts, 5, Len(parts))))} :
                                t \in _scramble_string(cm, parts[2])}

\* ("i-", "eni-", "nat-", "sg-", "subnet-", "vpc-", "vol-")
ID_PREFIXES ==
    {<<"i", "-">>,
     <<"e", "n", "i", "-">>,
     <<"n", "a", "t", "-">>,
     <<"s", "g", "-">>,
     <<"s", "u", "b", "n", "e", "t", "-">>,
     <<"v", "p", "c", "-">>,
     <<"v", "o", "l", "-">>}

\* a ResourceIdHandler.scrub that knows no shape and scrambles every text
\* whole
ResourceIdHandler_scrub_flat(eng, cm, value) ==
    IF isna(value) THEN {[ret |-> value, eng |-> eng, cm |-> cm, rec |-> None]}
    ELSE {[ret |-> Str(r.ret), eng |-> eng, cm |-> r.cm,
           rec |-> <<strip(py_str(value)), r.ret>>] :
              r \in _scramble_string(cm, strip(py_str(value)))}

\* ResourceIdHandler.scrub
ResourceIdHandler_scrub(eng, cm, value) ==
    IF isna(value) THEN {[ret |-> value, eng |-> eng, cm |-> cm, rec |-> None]}
    ELSE
    LET original == strip(py_str(value))
        replacements ==
            IF \/ startswith(original, <<"o", "c", "i", "d", "1", ".">>)
               \/ (startswith(original, <<"o", "c", "i", "_">>) /\ FindChar(original, ".", 1) = 0)
            THEN {[ret |-> r.ret, eng |-> eng, cm |-> r.cm] :
                     r \in _scrub_oci_resource_id(cm, original)}
            ELSE IF startswith(original, <<"/", "s", "u", "b", "s", "c", "r", "i", "p", "t", "i", "o", "n", "s", "/">>)
            THEN _scrub_azure_resource_id(eng, cm, original)
            ELSE IF startswith(original, <<"a", "r", "n", ":">>)
            THEN _scrub_arn(eng, cm, original)
            ELSE IF \E p \in ID_PREFIXES : startswith(original, p)
            THEN LET prefix_end == FindChar(original, "-", 1)
                 IN  {[ret |-> SubSeq(original, 1, prefix_end) \o r.ret,
                       eng |-> eng, cm |-> r.cm] :
                         r \in _scramble_string(
                                   cm, SubSeq(original, prefix_end + 1, Len(original)))}
            ELSE {[ret |-> r.ret, eng |-> eng, cm |-> r.cm] :
                     r \in _scramble_string(cm, original)}
    IN  {[ret |-> Str(r.ret), eng |-> r.eng, cm |-> r.cm, rec |-> <<original, r.ret>>] :
            r \in replacements}

(***************************************************************************)
(* handlers.py: TagsHandler.  ast.literal_eval and json.loads are modelled *)
(* on the texts tag columns hold: a bracketed list whose elements are      *)
(* 2-tuples or natural numbers, and a JSON object; the keys are quoted     *)
(* strings, the values quoted strings or natural numbers; strings without  *)
(* escapes.  A parsed pair is <<key, value>> for a string value and        *)
(* <<key, digits, "int">> for a number; a number that is an element of the *)
(* list has the key <<>>.                                                  *)
(***************************************************************************)
ParseError == [ok |-> FALSE]

\* the index of the last digit of the run of digits that starts at i
RECURSIVE NumberEnd(_, _)
NumberEnd(text, i) ==
    IF i < Len(text) /\ isdigit(text[i + 1]) THEN NumberEnd(text, i + 1) ELSE i

\* the digits text[i..j] are a number literal: no leading zero, but "0"
\* itself, and in Python also "00"
IsNumber(text, i, j, close) ==
    \/ text[i] # "0"
    \/ i = j
    \/ close = "]" /\ \A k \in i..j : text[k] = "0"

\* the quote characters of a string literal: ' or " in Python, " in JSON
Quotes(close) == IF close = "]" THEN {"'", "\""} ELSE {"\""}

\* the parser, reading text from position i on.  close is "]" for a list of
\* tuples and "}" for an object; state says what is expected next: "first"
\* (the first item or the closing bracket), "item", "key", "sep", "val",
\* "end" (the tuple's closing parenthesis), "next" (a comma or the closing
\* bracket, which has to end the text); spaces between tokens are skipped.
\* key is the key read last, acc the pairs read: [ok, val]
RECURSIVE Parse(_, _, _, _, _, _)
Parse(text, i, state, close, key, acc) ==
    IF i > Len(text) THEN ParseError
    ELSE IF text[i] = " " THEN Parse(text, i + 1, state, close, key, acc)
    ELSE IF state \in {"first", "next"} /\ text[i] = close
    THEN IF i = Len(text) THEN [ok |-> TRUE, val |-> acc] ELSE ParseError
    ELSE IF state \in {"first", "item"}
    THEN IF close = "}" THEN Parse(text, i, "key", close, key, acc)
         ELSE IF text[i] = "(" THEN Parse(text, i + 1, "key", close, key, acc)
         ELSE IF isdigit(text[i]) /\ IsNumber(text, i, NumberEnd(text, i), close)
         THEN Parse(text, NumberEnd(text, i) + 1, "next", close, key,
                    Append(acc, <<<<>>, SubSeq(text, i, NumberEnd(text, i)), "int">>))
         ELSE ParseError
    ELSE IF state = "val" /\ isdigit(text[i])
    THEN IF IsNumber(text, i, NumberEnd(text, i), close)
         THEN Parse(text, NumberEnd(text, i) + 1,
                    IF close = "]" THEN "end" ELSE "next", close, key,
                    Append(acc, <<key, SubSeq(text, i, NumberEnd(text, i)), "int">>))
         ELSE ParseError
    ELSE IF state \in {"key", "val"}
    THEN IF text[i] \notin Quotes(close) \/ FindChar(text, text[i], i + 1) = 0
         THEN ParseError
         ELSE IF \E k \in (i + 1)..(FindChar(text, text[i], i + 1) - 1) : text[k] = "\\"
         THEN ParseError
         ELSE IF state = "key"
         THEN Parse(text, FindChar(text, text[i], i + 1) + 1, "sep", close,
                    SubSeq(text, i + 1, FindChar(text, text[i], i + 1) - 1), acc)
         ELSE Parse(text, FindChar(text, text[i], i + 1) + 1,
                    IF close = "]" THEN "end" ELSE "next", close, key,
                    Append(acc, <<key, SubSeq(text, i + 1, FindChar(text, text[i], i + 1) - 1)>>))
    ELSE IF state = "sep"
    THEN IF text[i] = (IF close = "]" THEN "," ELSE ":")
         THEN Parse(text, i + 1, "val", close, key, acc)
         ELSE ParseError
    ELSE IF state = "end"
    THEN IF text[i] = ")" THEN Parse(text, i + 1, "next", close, key, acc)
         ELSE ParseError
    ELSE IF text[i] = "," THEN Parse(text, i + 1, "item", close, key, acc)
    ELSE ParseError

\* ast.literal_eval(text) of a text that starts with "[": [ok, val]
literal_eval(text) == Parse(text, 2, "first", "]", <<>>, <<>>)

\* dict(pairs): a repeated key keeps its first place and its last value
RECURSIVE dict_of(_)
dict_of(pairs) ==
    IF pairs = <<>> THEN <<>>
    ELSE LET n    == Len(pairs)
             init == dict_of(SubSeq(pairs, 1, n - 1))
             last == pairs[n]
         IN  IF \E i \in 1..Len(init) : init[i][1] = last[1]
             THEN [i \in 1..Len(init) |-> IF init[i][1] = last[1] THEN last ELSE init[i]]
             ELSE Append(init, last)

\* json.loads(text) of a text that starts with "{": [ok, val]
json_loads(text) ==
    IF Parse(text, 2, "first", "}", <<>>, <<>>).ok
    THEN [ok |-> TRUE, val |-> dict_of(Parse(text, 2, "first", "}", <<>>, <<>>).val)]
    ELSE ParseError

\* json.dumps(d, separators=(",", ":")): a number is written without quotes
json_dumps(pairs) ==
    <<"{">>
    \o Join(<<",">>,
            [i \in 1..Len(pairs) |->
                <<"\"">> \o pairs[i][1] \o <<"\"", ":">>
                \o (IF Len(pairs[i]) = 2
                    THEN <<"\"">> \o pairs[i][2] \o <<"\"">>
                    ELSE pairs[i][2])])
    \o <<"}">>

\* raise TypeError(...)
TypeError == [kind |-> "raise", val |-> "TypeError"]

\* bool(val) is False: the empty string and the number zero
Falsy(pair) ==
    IF Len(pair) = 2 THEN pair[2] = <<>> ELSE \A k \in 1..Len(pair[2]) : pair[2][k] = "0"

\* [(key, self._scramble_string(val)) for key, val in pairs], and with
\* keep_falsy {key: self._scramble_string(val) if val else val for ...}: the
\* outcomes [ret, cm, ok].  The pairs are taken in order; a number where a
\* pair or a string is needed makes the unpacking or the loop over the
\* characters raise TypeError: ok is FALSE, and cm holds what the values in
\* front of it added
RECURSIVE ScrambleValues(_, _, _)
ScrambleValues(cm, pairs, keep_falsy) ==
    IF pairs = <<>> THEN {[ret |-> <<>>, cm |-> cm, ok |-> TRUE]}
    ELSE IF keep_falsy /\ Falsy(Head(pairs))
    THEN {[ret |-> <<Head(pairs)>> \o r.ret, cm |-> r.cm, ok |-> r.ok] :
             r \in ScrambleValues(cm, Tail(pairs), keep_falsy)}
    ELSE IF Len(Head(pairs)) # 2
    THEN {[ret |-> <<>>, cm |-> cm, ok |-> FALSE]}
    ELSE UNION {{[ret |-> <<<<Head(pairs)[1], m.ret>>>> \o r.ret, cm |-> r.cm, ok |-> r.ok] :
                    r \in ScrambleValues(m.cm, Tail(pairs), keep_falsy)} :
                       m \in _scramble_string(cm, Head(pairs)[2])}

\* TagsHandler.scrub
TagsHandler_scrub(eng, cm, value) ==
    IF isna(value) THEN {[ret |-> value, eng |-> eng, cm |-> cm, rec |-> None]}
    ELSE IF value.kind \in {"list", "dict"}
    THEN IF value.val = <<>>
         THEN {[ret |-> value, eng |-> eng, cm |-> cm, rec |-> None]}
         ELSE {IF r.ok
               THEN [ret |-> [kind |-> value.kind, val |-> r.ret], eng |-> eng, cm |-> r.cm,
                     rec |-> <<py_str(value), py_str([kind |-> value.kind, val |-> r.ret])>>]
               ELSE [ret |-> TypeError, eng |-> eng, cm |-> r.cm, rec |-> None] :
                  r \in ScrambleValues(cm, value.val, value.kind = "dict")}
    ELSE
    LET original == strip(py_str(value))
        replacements ==
            IF Head(original) = "["
            THEN LET tags_list == literal_eval(original)
                 IN  IF tags_list.ok
                     THEN {[ret |-> str_list(r.ret), cm |-> r.cm, ok |-> r.ok] :
                              r \in ScrambleValues(cm, tags_list.val, FALSE)}
                     ELSE {[ret |-> original, cm |-> cm, ok |-> TRUE]}
            ELSE IF Head(original) = "{"
            THEN LET tags_dict == json_loads(original)
                 IN  IF tags_dict.ok
                     THEN {[ret |-> json_dumps(r.ret), cm |-> r.cm, ok |-> r.ok] :
                              r \in ScrambleValues(cm, tags_dict.val, TRUE)}
                     ELSE {[ret |-> original, cm |-> cm, ok |-> TRUE]}
            ELSE {[ret |-> original, cm |-> cm, ok |-> TRUE]}
    IN  IF original \in {<<"[", "]">>, <<"{", "}">>, <<>>}
        THEN {[ret |-> value, eng |-> eng, cm |-> cm, rec |-> None]}
        ELSE {IF r.ok
              THEN [ret |-> Str(r.ret), eng |-> eng, cm |-> r.cm, rec |-> <<original, r.ret>>]
              ELSE [ret |-> TypeError, eng |-> eng, cm |-> r.cm, rec |-> None] :
                 r \in replacements}

(***************************************************************************)
(* handlers.py: DateReformatHandler.  Of the texts pd.to_datetime reads as *)
(* a timestamp the model knows the calendar dates YYYY-MM-DD; every other  *)
(* text in the inputs is one it coerces to NaT.                            *)
(***************************************************************************)
RECURSIVE StrToNat(_)
StrToNat(s) ==
    IF s = <<>> THEN 0
    ELSE 10 * StrToNat(SubSeq(s, 1, Len(s) - 1))
         + (CHOOSE d \in 0..9 : DIGITS[d + 1] = s[Len(s)])

\* "%0*d"
RECURSIVE ZeroPad(_, _)
ZeroPad(n, width) ==
    IF Len(NatToStr(n)) >= width THEN NatToStr(n)
    ELSE LET s == NatToStr(n)
         IN  [i \in 1..width |-> IF i <= width - Len(s) THEN "0" ELSE s[i - (width - Len(s))]]

IsLeap(y) == (y % 4 = 0 /\ y % 100 # 0) \/ y % 400 = 0

DaysInMonth(y, m) ==
    IF m = 2 THEN (IF IsLeap(y) THEN 29 ELSE 28)
    ELSE IF m \in {4, 6, 9, 11} THEN 30 ELSE 31

\* the days from 0000-03-01 to the date y-m-d of the proleptic Gregorian
\* calendar
DaysFromCivil(y, m, d) ==
    LET yy  == IF m <= 2 THEN y - 1 ELSE y
        era == yy \div 400
        yoe == yy - era * 400
        mp  == IF m > 2 THEN m - 3 ELSE m + 9
        doy == (153 * mp + 2) \div 5 + d - 1
        doe == yoe * 365 + yoe \div 4 - yoe \div 100 + doy
    IN  era * 146097 + doe

\* the date y-m-d that lies z days after 0000-03-01
CivilFromDays(z) ==
    LET era == z \div 146097
        doe == z - era * 146097
        yoe == (doe - doe \div 1460 + doe \div 36524 - doe \div 146096) \div 365
        doy == doe - (365 * yoe + yoe \div 4 - yoe \div 100)
        mp  == (5 * doy + 2) \div 153
        d   == doy - (153 * mp + 2) \div 5 + 1
        m   == IF mp < 10 THEN mp + 3 ELSE mp - 9
        y   == yoe + era * 400 + (IF m <= 2 THEN 1 ELSE 0)
    IN  [year |-> y, month |-> m, day |-> d]

NaT == [kind |-> "NaT"]

\* pd.to_datetime(text, errors="coerce"): midnight of the date, as its day
\* number, or NaT
to_datetime(text) ==
    IF /\ Len(text) = 10
       /\ text[5] = "-" /\ text[8] = "-"
       /\ \A i \in {1, 2, 3, 4, 6, 7, 9, 10} : isdigit(text[i])
    THEN LET y == StrToNat(SubSeq(text, 1, 4))
             m == StrToNat(SubSeq(text, 6, 7))
             d == StrToNat(SubSeq(text, 9, 10))
         IN  IF y >= 1 /\ m \in 1..12 /\ d \in 1..DaysInMonth(y, m)
             THEN [kind |-> "Timestamp", days |-> DaysFromCivil(y, m, d)]
             ELSE NaT
    ELSE NaT

\* Timestamp.isoformat() of a midnight
isoformat(ts) ==
    LET c == CivilFromDays(ts.days)
    IN  ZeroPad(c.year, 4) \o <<"-">> \o ZeroPad(c.month, 2) \o <<"-">> \o ZeroPad(c.day, 2)
        \o <<"T", "0", "0", ":", "0", "0", ":", "0", "0">>

\* DateReformatHandler.scrub of a missing value or a str: the handler draws
\* nothing and has no table; it tells the collector only of a real shift
DateReformatHandler_scrub(days_to_add, eng, cm, value) ==
    IF isna(value) THEN {[ret |-> value, eng |-> eng, cm |-> cm, rec |-> None]}
    ELSE LET parsed == to_datetime(py_str(value))
         IN  IF parsed = NaT
             THEN {[ret |-> value, eng |-> eng, cm |-> cm, rec |-> None]}
             ELSE LET shifted == [parsed EXCEPT !.days = @ + days_to_add]
                      result  == isoformat(shifted)
                  IN  {[ret |-> Str(result), eng |-> eng, cm |-> cm,
                        rec |-> IF days_to_add # 0
                                THEN <<py_str(value), result>> ELSE None]}

(***************************************************************************)
(* handlers.py: the handlers of a dataset.                                 *)
(***************************************************************************)
\* dataset name -> (column name -> handler name)
DATASET_COLUMN_HANDLER_NAMES ==
    [CostAndUsage |->
        [BillingPeriodStart |-> "DateReformat",
         BillingPeriodEnd |-> "DateReformat",
         ChargePeriodStart |-> "DateReformat",
         ChargePeriodEnd |-> "DateReformat",
         BillingAccountId |-> "AccountId",
         BillingAccountName |-> "StellarName",
         SubAccountId |-> "AccountId",
         SubAccountName |-> "StellarName",
         CommitmentDiscountId |-> "CommitmentDiscountId",
         ResourceId |-> "ResourceId",
         Tags |-> "Tags"],
     ContractCommitment |->
        [ContractCommitmentPeriodStart |-> "DateReformat",
         ContractCommitmentPeriodEnd |-> "DateReformat",
         ContractPeriodStart |-> "DateReformat",
         ContractPeriodEnd |-> "DateReformat",
         BillingAccountId |-> "AccountId",
         BillingAccountName |-> "StellarName",
         SubAccountId |-> "AccountId",
         SubAccountName |-> "StellarName",
         CommitmentDiscountId |-> "CommitmentDiscountId",
         Tags |-> "Tags"]]

\* HANDLER_FACTORIES[handler_name](config, mapping_engine) followed by
\* attach_collector when a collector is given: the handler as a record of its
\* fields; the engine is the one engine of the session
NewHandler(handler_name, config, attached) ==
    [name        |-> handler_name,
     days_to_add |-> config.date_shift_days,
     _char_map   |-> EmptyDict,
     _collector  |-> attached]

\* raise ValueError(...)
ValueError == [kind |-> "raise", val |-> "ValueError"]

\* a get_column_handlers_for_dataset that takes an unknown name for
\* "CostAndUsage"
get_column_handlers_for_dataset_default(dataset_name, config, attached) ==
    LET column_to_handler_name ==
            IF dataset_name \in DOMAIN DATASET_COLUMN_HANDLER_NAMES
            THEN DATASET_COLUMN_HANDLER_NAMES[dataset_name]
            ELSE DATASET_COLUMN_HANDLER_NAMES["CostAndUsage"]
    IN  [column_name \in DOMAIN column_to_handler_name |->
            NewHandler(column_to_handler_name[column_name], config, attached)]

\* get_column_handlers_for_dataset: ValueError for a name that is not
\* registered, else column -> handler (every handler name of the registry has
\* a factory, the second raise is never reached)
get_column_handlers_for_dataset(dataset_name, config, attached) ==
    IF dataset_name \notin DOMAIN DATASET_COLUMN_HANDLER_NAMES THEN ValueError
    ELSE
    LET column_to_handler_name == DATASET_COLUMN_HANDLER_NAMES[dataset_name]
    IN  [column_name \in DOMAIN column_to_handler_name |->
            NewHandler(column_to_handler_name[column_name], config, attached)]

\* handler.scrub(value): the outcomes [ret, eng, cm, rec]
Handler_scrub(handler, eng, value) ==
    CASE handler.name = "DateReformat" ->
             DateReformatHandler_scrub(handler.days_to_add, eng, handler._char_map, value)
      [] handler.name = "AccountId" ->
             AccountIdHandler_scrub(eng, handler._char_map, value)
      [] handler.name = "StellarName" ->
             StellarNameHandler_scrub(eng, handler._char_map, value)
      [] handler.name = "CommitmentDiscountId" ->
             CommitmentDiscountIdHandler_scrub(eng, handler._char_map, value)
      [] handler.name = "ResourceId" ->
             ResourceIdHandler_scrub(eng, handler._char_map, value)
      [] handler.name = "Tags" ->
             TagsHandler_scrub(eng, handler._char_map, value)

(***************************************************************************)
(* Inputs: the originals the calls are made with.                          *)
(***************************************************************************)
\* "000011112222"
ACCOUNT_A == <<"0", "0", "0", "0", "1", "1", "1", "1", "2", "2", "2", "2">>

\* "00000000-1111-2222-3333-444444444444": its last group is all digits
UUID_U ==
    <<"0", "0", "0", "0", "0", "0", "0", "0", "-", "1", "1", "1", "1", "-",
      "2", "2", "2", "2", "-", "3", "3", "3", "3", "-",
      "4", "4", "4", "4", "4", "4", "4", "4", "4", "4", "4", "4">>

\* "aaaaaaaa-bbbb-cccc-dddd-eeeeeeeeeeee"
UUID_V ==
    <<"a", "a", "a", "a", "a", "a", "a", "a", "-", "b", "b", "b", "b", "-",
      "c", "c", "c", "c", "-", "d", "d", "d", "d", "-",
      "e", "e", "e", "e", "e", "e", "e", "e", "e", "e", "e", "e">>

\* "999988887777"
ACCOUNT_LOADED == <<"9", "9", "9", "9", "8", "8", "8", "8", "7", "7", "7", "7">>

\* "Nebula Alpha"
NAME_LOADED == <<"N", "e", "b", "u", "l", "a", " ", "A", "l", "p", "h", "a">>

\* "07" and the account id
NumberIdInputs == {<<"0", "7">>, ACCOUNT_A}

UuidInputs == {UUID_U}

\* "Acme" and "TC"
NameInputs == {<<"A", "c", "m", "e">>, <<"T", "C">>}

\* "TEST--99": three segments, the second one empty
ProfileCodeInputs == {<<"T", "E", "S", "T", "-", "-", "9", "9">>}

\* the dicts load_mappings is called with: one that rewrites the account id
\* and lacks the other keys, one with a name and a UUID
SnapshotInputs ==
    {[NumberId |-> (ACCOUNT_A :> ACCOUNT_LOADED)],
     [UUID |-> (UUID_U :> UUID_V), Name |-> (<<"T", "C">> :> NAME_LOADED)]}

\* "arn:aws:ec2:eu:000011112222:volume/v"
ARN_A == <<"a", "r", "n", ":", "a", "w", "s", ":", "e", "c", "2", ":", "e", "u", ":">> \o ACCOUNT_A \o <<":", "v", "o", "l", "u", "m", "e", "/", "v">>

\* "/subscriptions/<u>/resourcegroups/r"
SubscriptionOf(u) == <<"/", "s", "u", "b", "s", "c", "r", "i", "p", "t", "i", "o", "n", "s", "/">> \o u \o <<"/", "r", "e", "s", "o", "u", "r", "c", "e", "g", "r", "o", "u", "p", "s", "/", "r">>

SUBSCRIPTION_U == SubscriptionOf(UUID_U)

\* the account id alone in an account column, and in field 4 of an ARN in an
\* account column, the commitment column and the resource column
AccountCells ==
    {<<"BillingAccountId", Str(ACCOUNT_A)>>,
     <<"SubAccountId", Str(ARN_A)>>,
     <<"CommitmentDiscountId", Str(ARN_A)>>,
     <<"ResourceId", Str(ARN_A)>>}

\* a UUID with an all-digit last group alone in an account column and as
\* the subscription of a path in the resource column, and a UUID embedded in
\* a larger value ("s/" in front)
UuidCells ==
    {<<"BillingAccountId", Str(UUID_U)>>,
     <<"SubAccountId", Str(<<"s", "/">> \o UUID_V)>>,
     <<"ResourceId", Str(SUBSCRIPTION_U)>>}

\* one cell per handler type: "2024-02-29", the account id, "Acme", the ARN,
\* "vol-v" and {"k":"v"}
SessionCells ==
    {<<"BillingPeriodStart", Str(<<"2", "0", "2", "4", "-", "0", "2", "-", "2", "9">>)>>,
     <<"BillingAccountId", Str(ACCOUNT_A)>>,
     <<"BillingAccountName", Str(<<"A", "c", "m", "e">>)>>,
     <<"CommitmentDiscountId", Str(ARN_A)>>,
     <<"ResourceId", Str(<<"v", "o", "l", "-", "v">>)>>,
     <<"Tags", Str(<<"{", "\"", "k", "\"", ":", "\"", "v", "\"", "}">>)>>}

\* a column of each handler type
HandlerColumns ==
    {"BillingPeriodStart", "BillingAccountId", "BillingAccountName",
     "CommitmentDiscountId", "ResourceId", "Tags"}

\* the missing values, in a column of each handler type, and values that
\* fill the tables: "07", "vol-v", [('k', 'v')] as text
NullCells ==
    (HandlerColumns \X {None, NA})
    \cup {<<"BillingAccountId", Str(<<"0", "7">>)>>,
          <<"ResourceId", Str(<<"v", "o", "l", "-", "v">>)>>,
          <<"Tags", Str(<<"[", "(", "'", "k", "'", ",", " ", "'", "v", "'", ")", "]">>)>>}

(***************************************************************************)
(* State.                                                                  *)
(***************************************************************************)
VARIABLES
    engine,          \* the MappingEngine of the session
    collector,       \* the MappingCollector
    args,            \* the command line of the session
    column_handlers, \* column -> handler, once the session has built them
    call,            \* the last call made: [op, arg, ret, hit]
    ncalls,          \* how many calls were made
    first_ret,       \* history: (op, arg) -> what the first such call returned
    previous_run,    \* history: first_ret as the previous session left it
    threads,         \* thread -> where it is inside a map call: [pc, op, arg, replacement, ret]
    lock             \* the mutual-exclusion boundary: [enabled, holder], holder a set of threads

vars == <<engine, collector, args, column_handlers, call, ncalls, first_ret, previous_run,
          threads, lock>>

\* the threads that call into one engine
Threads == {1, 2}

\* no call in progress
Idle == [pc |-> "idle", op |-> None, arg |-> None, replacement |-> None, ret |-> None]

\* the program as written: one thread at a time and no lock
SingleThreaded ==
    /\ threads = [t \in Threads |-> Idle]
    /\ lock = [enabled |-> FALSE, holder |-> {}]

\* the values of --date-shift-days the sessions run with
DateShiftInputs == {0, 1}

\* an engine and a collector as constructed, no handlers built
Init ==
    /\ engine = MappingEngine
    /\ collector = MappingCollector
    /\ args = [dataset |-> "CostAndUsage", date_shift_days |-> 0, export_mappings |-> TRUE]
    /\ column_handlers = EmptyDict
    /\ call = [op |-> "init", arg |-> None, ret |-> None, hit |-> FALSE]
    /\ ncalls = 0
    /\ first_ret = EmptyDict
    /\ previous_run = EmptyDict
    /\ SingleThreaded

\* cli.main up to its loop over the files, run without --load-mappings: the
\* collector exists only with --export-mappings
InitSession ==
    /\ args \in [dataset : {"CostAndUsage"},
                 date_shift_days : DateShiftInputs,
                 export_mappings : BOOLEAN]
    /\ engine = MappingEngine
    /\ collector = MappingCollector
    /\ column_handlers =
           get_column_handlers_for_dataset(
               args.dataset, [date_shift_days |-> args.date_shift_days], args.export_mappings)
    /\ call = [op |-> "init", arg |-> None, ret |-> None, hit |-> FALSE]
    /\ ncalls = 0
    /\ first_ret = EmptyDict
    /\ previous_run = EmptyDict
    /\ SingleThreaded

\* the history keeps what the first call of (op, arg) returned
Remember(op, arg, ret) ==
    IF <<op, arg>> \in DOMAIN first_ret THEN first_ret
    ELSE DictSet(first_ret, <<op, arg>>, ret)

(***************************************************************************)
(* Calls of the engine.                                                    *)
(***************************************************************************)
MapCall(op, value, outcomes, hit) ==
    /\ ncalls < MaxCalls
    /\ \E o \in outcomes :
        /\ ncalls' = ncalls + 1
        /\ engine' = o.eng
        /\ call' = [op |-> op, arg |-> value, ret |-> o.ret, hit |-> hit]
        /\ first_ret' = Remember(op, value, o.ret)
        /\ UNCHANGED <<collector, args, column_handlers, previous_run, threads, lock>>

MapNumberId ==
    \E value \in NumberIdInputs :
        MapCall("map_number_id", value, map_number_id(engine, value),
                value \in DOMAIN engine.number_id_map)

MapUuid ==
    \E value \in UuidInputs :
        MapCall("map_uuid", value, map_uuid(engine, value),
                value \in DOMAIN engine.uuid_map)

MapName ==
    \E value \in NameInputs :
        MapCall("map_name", value, map_name(engine, value),
                value \in DOMAIN engine.name_map)

MapProfileCode ==
    \E value \in ProfileCodeInputs :
        MapCall("map_profile_code", value, map_profile_code(engine, value),
                value \in DOMAIN engine.profile_code_map)

\* engine.load_mappings(mappings) on the live engine
LoadMappings ==
    \E mappings \in SnapshotInputs :
        /\ ncalls < MaxCalls
        /\ ncalls' = ncalls + 1
        /\ engine' = load_mappings(engine, mappings)
        /\ call' = [op |-> "load_mappings", arg |-> mappings, ret |-> None, hit |-> FALSE]
        /\ UNCHANGED <<collector, args, column_handlers, first_ret, previous_run, threads, lock>>

\* engine.get_all_mappings()
GetAllMappings ==
    /\ ncalls < MaxCalls
    /\ ncalls' = ncalls + 1
    /\ call' = [op |-> "get_all_mappings", arg |-> None,
                ret |-> get_all_mappings(engine), hit |-> FALSE]
    /\ UNCHANGED <<engine, collector, args, column_handlers, first_ret, previous_run, threads, lock>>

\* a later run: a fresh MappingEngine() loads what get_all_mappings() of the
\* engine returns; arg keeps the engine that was exported
FreshEngineLoad ==
    /\ ncalls < MaxCalls
    /\ ncalls' = ncalls + 1
    /\ engine' = load_mappings(MappingEngine, get_all_mappings(engine))
    /\ call' = [op |-> "fresh_load", arg |-> engine, ret |-> None, hit |-> FALSE]
    /\ first_ret' = EmptyDict
    /\ UNCHANGED <<collector, args, column_handlers, previous_run, threads, lock>>

NextMap == MapNumberId \/ MapUuid \/ MapName \/ MapProfileCode

\* the engine used by map calls alone
SpecMap == Init /\ [][NextMap]_vars

Next ==
    \/ MapNumberId
    \/ MapUuid
    \/ MapName
    \/ MapProfileCode
    \/ LoadMappings
    \/ GetAllMappings
    \/ FreshEngineLoad

\* the engine with every method of its API
Spec == Init /\ [][Next]_vars

(***************************************************************************)
(* Calls of the collector.                                                 *)
(***************************************************************************)
RecordColumns == {"BillingAccountId", "SubAccountId"}

\* originals and replacements "07", "A", "9"
RecordValues == {<<"0", "7">>, <<"A">>, <<"9">>}

\* collector.record(column_name, original, replacement)
Record ==
    \E column_name \in RecordColumns, original \in RecordValues, replacement \in RecordValues :
        /\ ncalls < MaxCalls
        /\ ncalls' = ncalls + 1
        /\ collector' = record(collector, column_name, original, replacement)
        /\ call' = [op |-> "record",
                    arg |-> <<column_name, original, replacement>>,
                    ret |-> None,
                    hit |-> /\ column_name \in DOMAIN collector.seen
                            /\ original \in collector.seen[column_name]]
        /\ first_ret' = Remember("record", <<column_name, original>>, replacement)
        /\ UNCHANGED <<engine, args, column_handlers, previous_run, threads, lock>>

NextCollector == Record

\* the collector used by record calls alone
SpecCollector == Init /\ [][NextCollector]_vars

(***************************************************************************)
(* Calls of the handlers, and sessions.                                    *)
(***************************************************************************)
\* column_handlers[column].scrub(value), as DataFrameScrub.scrub calls it for
\* a cell of the column
Scrub(cells) ==
    /\ ncalls < MaxCalls
    /\ \E cell \in cells :
        LET column  == cell[1]
            value   == cell[2]
            handler == column_handlers[column]
        IN  \E o \in Handler_scrub(handler, engine, value) :
                /\ ncalls' = ncalls + 1
                /\ engine' = o.eng
                /\ column_handlers' = [column_handlers EXCEPT ![column]._char_map = o.cm]
                /\ collector' = IF handler._collector /\ o.rec # None
                                THEN record(collector, column, o.rec[1], o.rec[2])
                                ELSE collector
                /\ call' = [op |-> "scrub", arg |-> cell, ret |-> o.ret, hit |-> FALSE]
                /\ first_ret' = Remember("scrub", cell, o.ret)
                /\ UNCHANGED <<args, previous_run, threads, lock>>

\* cli.main run again with the same arguments and --load-mappings naming the
\* file the session wrote with --export-mappings: a fresh engine loads the
\* file's component_mappings, which are get_all_mappings() of the engine,
\* and handlers are built anew on it
NewSession ==
    /\ ncalls < MaxCalls
    /\ ncalls' = ncalls + 1
    /\ args.export_mappings
    /\ engine' = load_mappings(MappingEngine, get_all_mappings(engine))
    /\ collector' = MappingCollector
    /\ column_handlers' =
           get_column_handlers_for_dataset(
               args.dataset, [date_shift_days |-> args.date_shift_days], args.export_mappings)
    /\ call' = [op |-> "main", arg |-> None, ret |-> None, hit |-> FALSE]
    /\ previous_run' = first_ret
    /\ first_ret' = EmptyDict
    /\ UNCHANGED <<args, threads, lock>>

ScrubAccountCells == Scrub(AccountCells)

NextAccount == ScrubAccountCells

\* one session scrubbing the account id and its ARN
SpecAccount == InitSession /\ [][NextAccount]_vars

ScrubUuidCells == Scrub(UuidCells)

NextUuid == ScrubUuidCells

\* one session scrubbing UUIDs
SpecUuid == InitSession /\ [][NextUuid]_vars

ScrubSessionCells == Scrub(SessionCells)

NextSession == ScrubSessionCells \/ NewSession

\* sessions that follow one another through the exported file
SpecSession == InitSession /\ [][NextSession]_vars

ScrubNullCells == Scrub(NullCells)

NextNull == ScrubNullCells

\* one session scrubbing missing values among others
SpecNull == InitSession /\ [][NextNull]_vars

(***************************************************************************)
(* Claims.                                                                 *)
(***************************************************************************)
MapOps == {"map_number_id", "map_uuid", "map_name", "map_profile_code"}

\* the table of the engine that a map call reads and writes
TableOf(eng, op) ==
    CASE op = "map_number_id"    -> eng.number_id_map
      [] op = "map_uuid"         -> eng.uuid_map
      [] op = "map_name"         -> eng.name_map
      [] op = "map_profile_code" -> eng.profile_code_map

\* C1: over any interleaving of the four map calls on one engine, a call
\* map_X(o) returns what the first map_X(o) returned, and the table entry of
\* every original ever mapped is still the value first returned for it.
C1_MapDeterministic ==
    /\ call.op \in MapOps => call.ret = first_ret[<<call.op, call.arg>>]
    /\ \A k \in DOMAIN first_ret :
           /\ k[2] \in DOMAIN TableOf(engine, k[1])
           /\ TableOf(engine, k[1])[k[2]] = first_ret[k]

\* a map call found its original in the table, with another domain's table
\* filled in between
C1_Witness ==
    /\ call.op = "map_number_id"
    /\ call.hit
    /\ engine.name_map # EmptyDict

\* C2: load_mappings never changes an entry the engine already holds: every
\* original mapped before the call is mapped to the same synthetic value after.
C2_LoadNonDestructive ==
    [][call'.op = "load_mappings" =>
          \A op \in MapOps :
              \A o \in DOMAIN TableOf(engine, op) :
                  /\ o \in DOMAIN TableOf(engine', op)
                  /\ TableOf(engine', op)[o] = TableOf(engine, op)[o]]_vars

\* the (cell, returned value) pairs of the scrub calls made in the session:
\* for each cell the first one, and the last call
Returned ==
    {<<k[2], first_ret[k]>> : k \in {x \in DOMAIN first_ret : x[1] = "scrub"}}
    \cup (IF call.op = "scrub" THEN {<<call.arg, call.ret>>} ELSE {})

AccountColumns == {"BillingAccountId", "SubAccountId"}

\* C3: in whatever order the calls come, the value an AccountIdHandler
\* returns for the account id alone is colon field 4 of what an
\* AccountIdHandler, a CommitmentDiscountIdHandler or a ResourceIdHandler on
\* the same engine returns for an ARN with that account id in field 4.
C3_AccountIdCrossConsistency ==
    \A x, y \in Returned :
        (/\ x[1][1] \in AccountColumns
         /\ x[1][2] = Str(ACCOUNT_A)
         /\ y[1][2] = Str(ARN_A))
        => Split(y[2].val, ":")[5] = x[2].val

\* the account id was scrubbed alone and in the ARN, by the resource handler
\* and by the commitment handler
C3_Witness ==
    /\ <<"scrub", <<"BillingAccountId", Str(ACCOUNT_A)>>>> \in DOMAIN first_ret
    /\ <<"scrub", <<"ResourceId", Str(ARN_A)>>>> \in DOMAIN first_ret
    /\ <<"scrub", <<"CommitmentDiscountId", Str(ARN_A)>>>> \in DOMAIN first_ret

\* C4: for a UUID u, what an AccountIdHandler puts in the place of u (u alone,
\* or behind "s/") and what a ResourceIdHandler on the same engine puts in
\* the subscription segment of "/subscriptions/u/..." are both the engine's
\* map_uuid(u), the UUID table's entry for u.
C4_UuidCrossConsistency ==
    \A x \in Returned :
        \A u \in {UUID_U, UUID_V} :
            /\ (x[1][1] \in AccountColumns /\ x[1][2] = Str(u))
               => (u \in DOMAIN engine.uuid_map /\ x[2].val = engine.uuid_map[u])
            /\ (x[1][1] \in AccountColumns /\ x[1][2] = Str(<<"s", "/">> \o u))
               => (u \in DOMAIN engine.uuid_map
                   /\ x[2].val = <<"s", "/">> \o engine.uuid_map[u])
            /\ (x[1][1] = "ResourceId"
                /\ x[1][2] = Str(SubscriptionOf(u)))
               => (u \in DOMAIN engine.uuid_map
                   /\ Split(x[2].val, "/")[3] = engine.uuid_map[u])

\* C5: a fresh engine that loaded get_all_mappings() of an engine E1 exports
\* the same mappings as E1, and each map_X of an original E1 had mapped has
\* one outcome: E1's synthetic value, with no table written.
C5_ExportImportRoundTrip ==
    call.op = "fresh_load" =>
        /\ get_all_mappings(engine) = get_all_mappings(call.arg)
        /\ \A o \in DOMAIN call.arg.number_id_map :
               map_number_id(engine, o) =
                   {[ret |-> call.arg.number_id_map[o], eng |-> engine]}
        /\ \A o \in DOMAIN call.arg.uuid_map :
               map_uuid(engine, o) = {[ret |-> call.arg.uuid_map[o], eng |-> engine]}
        /\ \A o \in DOMAIN call.arg.name_map :
               map_name(engine, o) = {[ret |-> call.arg.name_map[o], eng |-> engine]}
        /\ \A o \in DOMAIN call.arg.profile_code_map :
               map_profile_code(engine, o) =
                   {[ret |-> call.arg.profile_code_map[o], eng |-> engine]}

\* a fresh engine loaded an export that holds a profile code and a name
C5_Witness ==
    /\ call.op = "fresh_load"
    /\ call.arg.profile_code_map # EmptyDict
    /\ call.arg.name_map # EmptyDict

\* C6: in a session whose fresh handlers sit on an engine that loaded the
\* previous session's exported snapshot, scrubbing a cell the previous
\* session scrubbed returns what the previous session returned for it,
\* whatever the handler type.
C6_ReloadReproducesOutputs ==
    (call.op = "scrub" /\ <<"scrub", call.arg>> \in DOMAIN previous_run)
    => call.ret = previous_run[<<"scrub", call.arg>>]

\* C7: map_number_id of a non-empty digit string returns digits only, as many
\* as the original has, the first of them not "0".
C7_NumberIdShape ==
    (call.op = "map_number_id" /\ str_isdigit(call.arg)) =>
        /\ Len(call.ret) = Len(call.arg)
        /\ \A i \in 1..Len(call.ret) : isdigit(call.ret[i])
        /\ call.ret[1] # "0"

\* a digit string with a leading zero was mapped by a fresh draw
C7_Witness ==
    /\ call.op = "map_number_id"
    /\ ~call.hit
    /\ call.arg[1] = "0"

\* C8: map_profile_code returns as many "-"-separated segments as the code
\* has, each as long as the code's, every character in [A-Z0-9].
C8_ProfileCodeShape ==
    call.op = "map_profile_code" =>
        LET segs_in  == Split(call.arg, "-")
            segs_out == Split(call.ret, "-")
        IN  /\ Len(segs_out) = Len(segs_in)
            /\ \A i \in 1..Len(segs_in) :
                   /\ Len(segs_out[i]) = Len(segs_in[i])
                   /\ \A j \in 1..Len(segs_out[i]) :
                          isupper(segs_out[i][j]) \/ isdigit(segs_out[i][j])

\* a code with an empty segment was mapped
C8_Witness ==
    /\ call.op = "map_profile_code"
    /\ \E i \in 1..Len(Split(call.arg, "-")) : Split(call.arg, "-")[i] = <<>>

\* C9: a scrub of a missing value, by the handler of any type, returns that
\* value and leaves the four tables of the engine, every handler's scramble
\* table and the collector as they were.
C9_NullPassthrough ==
    [][(call'.op = "scrub" /\ ncalls' = ncalls + 1 /\ isna(call'.arg[2]))
       => /\ call'.ret = call'.arg[2]
          /\ get_all_mappings(engine') = get_all_mappings(engine)
          /\ \A column \in DOMAIN column_handlers :
                 column_handlers'[column]._char_map = column_handlers[column]._char_map
          /\ collector' = collector]_vars

\* a missing value was scrubbed by a handler that holds a scramble table,
\* with entries in that table, in the engine and in the collector
C9_Witness ==
    /\ call.op = "scrub"
    /\ isna(call.arg[2])
    /\ column_handlers[call.arg[1]]._char_map # EmptyDict
    /\ engine.number_id_map # EmptyDict
    /\ collector.mappings # EmptyDict

\* C10: to_dict holds, per column, one pair at most for an original, with the
\* replacement of the first record call of (column, original); a record call
\* of a pair already seen changes nothing, and any other appends its pair at
\* the end of its column, so the pairs stand in first-seen order.
C10_CollectorFirstWins ==
    /\ [](\A c \in DOMAIN to_dict(collector) :
             LET pairs == to_dict(collector)[c]
             IN  /\ \A i, j \in 1..Len(pairs) : pairs[i][1] = pairs[j][1] => i = j
                 /\ \A i \in 1..Len(pairs) :
                        pairs[i][2] = first_ret[<<"record", <<c, pairs[i][1]>>>>])
    /\ [][call'.op = "record" =>
             LET c     == call'.arg[1]
                 old   == IF c \in DOMAIN to_dict(collector)
                          THEN to_dict(collector)[c] ELSE <<>>
                 known == \E i \in 1..Len(old) : old[i][1] = call'.arg[2]
             IN  /\ \A d \in DOMAIN to_dict(collector) \ {c} :
                        /\ d \in DOMAIN to_dict(collector')
                        /\ to_dict(collector')[d] = to_dict(collector)[d]
                 /\ to_dict(collector')[c] =
                        IF known THEN old
                        ELSE Append(old, <<call'.arg[2], call'.arg[3]>>)]_vars

\* the same (column, original) was recorded again with another replacement,
\* after a second original of that column
C10_Witness ==
    /\ call.op = "record"
    /\ call.hit
    /\ call.arg[3] # first_ret[<<"record", <<call.arg[1], call.arg[2]>>>>]
    /\ Len(to_dict(collector)[call.arg[1]]) = 2


(***************************************************************************)
(* ResourceIdHandler on ARNs.                                              *)
(***************************************************************************)
\* "arn:aws:s3:eu:000011112222:": six fields, the resource after field 4 is
\* empty
ARN_EMPTY_RESOURCE == <<"a", "r", "n", ":", "a", "w", "s", ":", "s", "3", ":", "e", "u", ":">> \o ACCOUNT_A \o <<":">>

\* "arn:aws:s3:::b": fields 3 and 4 are empty
ARN_EMPTY_ACCOUNT == <<"a", "r", "n", ":", "a", "w", "s", ":", "s", "3", ":", ":", ":", "b">>

\* "arn:aws:sqs:eu::q:q": seven fields, the resource holds a colon
ARN_SEVEN_FIELDS == <<"a", "r", "n", ":", "a", "w", "s", ":", "s", "q", "s", ":", "e", "u", ":", ":", "q", ":", "q">>

\* "arn:b": fewer than six fields
ARN_SHORT == <<"a", "r", "n", ":", "b">>

ArnCells ==
    {<<"ResourceId", Str(a)>> :
        a \in {ARN_A, ARN_EMPTY_RESOURCE, ARN_EMPTY_ACCOUNT, ARN_SEVEN_FIELDS, ARN_SHORT}}

ScrubArnCells == Scrub(ArnCells)

NextArn == ScrubArnCells

\* one session scrubbing ARNs in the resource column
SpecArn == InitSession /\ [][NextArn]_vars

\* str.count(c)
CountChar(s, c) == Cardinality({i \in 1..Len(s) : s[i] = c})

\* C11: a value that starts with "arn:", scrubbed by the ResourceIdHandler,
\* comes back with as many ":" as it went in with, whatever its number of
\* fields, an empty field 4 and an empty resource after field 4 included.
C11_ArnColonCount ==
    (/\ call.op = "scrub"
     /\ call.arg[1] = "ResourceId"
     /\ call.arg[2].kind = "str"
     /\ startswith(call.arg[2].val, <<"a", "r", "n", ":">>))
    => CountChar(call.ret.val, ":") = CountChar(call.arg[2].val, ":")


(***************************************************************************)
(* ResourceIdHandler on hierarchical paths.                                *)
(***************************************************************************)
SUBSCRIPTIONS == <<"s", "u", "b", "s", "c", "r", "i", "p", "t", "i", "o", "n", "s">>
RESOURCEGROUPS == <<"r", "e", "s", "o", "u", "r", "c", "e", "g", "r", "o", "u", "p", "s">>
PROVIDERS == <<"p", "r", "o", "v", "i", "d", "e", "r", "s">>

\* "/subscriptions/<v>/resourcegroups/g/providers/p.q/g/g"
PATH_FULL == <<"/">> \o SUBSCRIPTIONS \o <<"/">> \o UUID_V \o <<"/">> \o RESOURCEGROUPS \o <<"/", "g", "/">> \o PROVIDERS \o <<"/", "p", ".", "q", "/", "g", "/", "g">>

\* "/subscriptions/s/providers/resourcegroups/resourcegroups": the
\* subscription is no UUID, the namespace after "providers" reads like a
\* keyword, and the last keyword has no segment after it
PATH_KEYWORDS == <<"/">> \o SUBSCRIPTIONS \o <<"/", "s", "/">> \o PROVIDERS \o <<"/">> \o RESOURCEGROUPS \o <<"/">> \o RESOURCEGROUPS

\* "/subscriptions/s/resourcegroups/g ": a space after the last segment
PATH_PADDED == <<"/">> \o SUBSCRIPTIONS \o <<"/", "s", "/">> \o RESOURCEGROUPS \o <<"/", "g", " ">>

PathCells == {<<"ResourceId", Str(p)>> : p \in {PATH_FULL, PATH_KEYWORDS, PATH_PADDED}}

ScrubPathCells == Scrub(PathCells)

NextPath == ScrubPathCells

\* one session scrubbing hierarchical paths in the resource column
SpecPath == InitSession /\ [][NextPath]_vars

\* r is s with every character replaced by its entry of the scramble table
IsScrambleOf(cm, s, r) ==
    /\ Len(r) = Len(s)
    /\ \A i \in 1..Len(s) : s[i] \in DOMAIN cm /\ r[i] = cm[s[i]]

\* the last call scrubbed a text in the resource column
ResourceScrubbed ==
    /\ call.op = "scrub"
    /\ call.arg[1] = "ResourceId"
    /\ call.arg[2].kind = "str"

\* the indices of the parts 1-based from i on that _scrub_azure_resource_id
\* meets as a keyword: not the segment it consumes together with the keyword
\* in front of it
RECURSIVE KeywordPositions(_, _)
KeywordPositions(parts, i) ==
    IF i > Len(parts) THEN {}
    ELSE IF parts[i] \notin {SUBSCRIPTIONS, RESOURCEGROUPS, PROVIDERS}
    THEN KeywordPositions(parts, i + 1)
    ELSE IF /\ i + 1 <= Len(parts)
            /\ \/ parts[i] \in {RESOURCEGROUPS, PROVIDERS}
               \/ MatchUuid(parts[i + 1], 1) > 0
    THEN {i} \cup KeywordPositions(parts, i + 2)
    ELSE {i} \cup KeywordPositions(parts, i + 1)

\* the output text has the segments of the input text: as many, the keywords
\* in place, the namespace after "providers" verbatim and the name after
\* "resourcegroups" scrambled by the table cm
PathShape(input, output, cm) ==
    LET p == Split(input, "/")
        q == Split(output, "/")
    IN  /\ Len(q) = Len(p)
        /\ \A k \in KeywordPositions(p, 1) :
               /\ q[k] = p[k]
               /\ (k + 1 <= Len(p) /\ p[k] = PROVIDERS) => q[k + 1] = p[k + 1]
               /\ (k + 1 <= Len(p) /\ p[k] = RESOURCEGROUPS)
                      => IsScrambleOf(cm, p[k + 1], q[k + 1])

\* C12 as stated: the output of a value that starts with "/subscriptions/"
\* has the segments of the value itself.
C12_PathShapeOfValue ==
    (ResourceScrubbed /\ startswith(call.arg[2].val, <<"/">> \o SUBSCRIPTIONS \o <<"/">>))
    => PathShape(call.arg[2].val, call.ret.val, column_handlers["ResourceId"]._char_map)

\* C12: for a value whose text, surrounding whitespace removed, starts with
\* "/subscriptions/", the ResourceIdHandler output has as many "/"-separated
\* segments as that text; every "subscriptions", "resourcegroups" and
\* "providers" in keyword position is at the same index verbatim, the segment
\* after "providers" is verbatim and the segment after "resourcegroups" is
\* its character scramble.
C12_PathShape ==
    (ResourceScrubbed /\ startswith(strip(call.arg[2].val), <<"/">> \o SUBSCRIPTIONS \o <<"/">>))
    => PathShape(strip(call.arg[2].val), call.ret.val,
                 column_handlers["ResourceId"]._char_map)

\* the full path was scrubbed: its subscription and its group name changed
C12_Witness ==
    /\ ResourceScrubbed
    /\ call.arg[2].val = PATH_FULL
    /\ Split(call.ret.val, "/")[3] # UUID_V
    /\ Split(call.ret.val, "/")[5] # <<"g">>


(***************************************************************************)
(* ResourceIdHandler on dotted realm ids.                                  *)
(***************************************************************************)
OCID1 == <<"o", "c", "i", "d", "1", ".">>
OCI_ == <<"o", "c", "i", "_">>

\* "ocid1.a.a.a.a.a": six fields, the unique id holds a dot, and the realm
\* and the region hold the character the other fields hold
OCID_FULL == <<"o", "c", "i", "d", "1", ".", "a", ".", "a", ".", "a", ".", "a", ".", "a">>

\* "ocid1.d": fewer than five fields
OCID_SHORT == <<"o", "c", "i", "d", "1", ".", "d">>

\* "oci_c": the short form
OCI_NAME == <<"o", "c", "i", "_", "c">>

\* "ocid1.a.a.a.a ": a space after the unique id
OCID_PADDED == <<"o", "c", "i", "d", "1", ".", "a", ".", "a", ".", "a", ".", "a", " ">>

DottedCells == {<<"ResourceId", Str(d)>> : d \in {OCID_FULL, OCID_SHORT, OCI_NAME, OCID_PADDED}}

ScrubDottedCells == Scrub(DottedCells)

NextDotted == ScrubDottedCells

\* one session scrubbing dotted realm ids in the resource column
SpecDotted == InitSession /\ [][NextDotted]_vars

\* the output text is the input text decomposed as _scrub_oci_resource_id
\* decomposes it, with the scramble table cm
DottedShape(input, output, cm) ==
    LET p == Split(input, ".")
        q == Split(output, ".")
    IN  IF startswith(input, OCID1) /\ Len(p) >= 5
        THEN /\ CountChar(output, ".") = CountChar(input, ".")
             /\ q[1] = p[1] /\ q[3] = p[3] /\ q[4] = p[4]
             /\ IsScrambleOf(cm, p[2], q[2])
             /\ IsScrambleOf(cm, Join(<<".">>, SubSeq(p, 5, Len(p))),
                                 Join(<<".">>, SubSeq(q, 5, Len(q))))
        ELSE IF startswith(input, OCID1)
        THEN IsScrambleOf(cm, input, output)
        ELSE IF startswith(input, OCI_) /\ CountChar(input, ".") = 0
        THEN /\ startswith(output, OCI_)
             /\ IsScrambleOf(cm, SubSeq(input, 5, Len(input)), SubSeq(output, 5, Len(output)))
        ELSE TRUE

\* C13 as stated: the output is the decomposition of the value itself.
C13_DottedShapeOfValue ==
    ResourceScrubbed
    => DottedShape(call.arg[2].val, call.ret.val, column_handlers["ResourceId"]._char_map)

\* C13: with t the text of the value, surrounding whitespace removed: when t
\* starts with "ocid1." and has at least 5 dot-separated fields the output
\* keeps fields 0, 2 and 3, has the scrambles of field 1 and of the rejoined
\* fields 4.. in their places and as many "." as t; with fewer than 5 fields
\* the output is the scramble of all of t; when t is "oci_<name>" without a
\* dot the output is "oci_" and the scramble of the name.
C13_DottedShape ==
    ResourceScrubbed
    => DottedShape(strip(call.arg[2].val), call.ret.val,
                   column_handlers["ResourceId"]._char_map)

\* the six-field id was scrubbed and its resource type changed, realm and
\* region, which hold the same character, did not
C13_Witness ==
    /\ ResourceScrubbed
    /\ call.arg[2].val = OCID_FULL
    /\ Split(call.ret.val, ".")[2] # <<"a">>
    /\ Split(call.ret.val, ".")[3] = <<"a">>


(***************************************************************************)
(* ResourceIdHandler on prefixed short ids.                                *)
(***************************************************************************)
\* "vol-v", "i-0a", "subnet-s-1" with a hyphen in its remainder, and
\* "eni-e " with a space after it
PrefixedCells ==
    {<<"ResourceId", Str(<<"v", "o", "l", "-", "v">>)>>,
     <<"ResourceId", Str(<<"i", "-", "0", "a">>)>>,
     <<"ResourceId", Str(<<"s", "u", "b", "n", "e", "t", "-", "s", "-", "1">>)>>,
     <<"ResourceId", Str(<<"e", "n", "i", "-", "e", " ">>)>>}

ScrubPrefixedCells == Scrub(PrefixedCells)

NextPrefixed == ScrubPrefixedCells

\* one session scrubbing prefixed short ids in the resource column
SpecPrefixed == InitSession /\ [][NextPrefixed]_vars

\* the output text is the input text through its first hyphen, then the
\* scramble by cm of what follows, and is as long as the input text
PrefixShape(input, output, cm) ==
    LET prefix_end == FindChar(input, "-", 1)
    IN  /\ Len(output) = Len(input)
        /\ SubSeq(output, 1, prefix_end) = SubSeq(input, 1, prefix_end)
        /\ IsScrambleOf(cm, SubSeq(input, prefix_end + 1, Len(input)),
                            SubSeq(output, prefix_end + 1, Len(output)))

\* C14 as stated: the output has the prefix and the length of the value
\* itself, and the scramble of the value's remainder.
C14_PrefixShapeOfValue ==
    (ResourceScrubbed /\ \E p \in ID_PREFIXES : startswith(call.arg[2].val, p))
    => PrefixShape(call.arg[2].val, call.ret.val, column_handlers["ResourceId"]._char_map)

\* C14: with t the text of the value, surrounding whitespace removed: when t
\* starts with one of "i-", "eni-", "nat-", "sg-", "subnet-", "vpc-", "vol-",
\* the output starts with t's prefix through the first hyphen, is as long as
\* t, and its remainder is the character scramble of t's remainder.
C14_PrefixShape ==
    (ResourceScrubbed /\ \E p \in ID_PREFIXES : startswith(strip(call.arg[2].val), p))
    => PrefixShape(strip(call.arg[2].val), call.ret.val,
                   column_handlers["ResourceId"]._char_map)

\* "subnet-s-1" was scrubbed: the "s" after the prefix changed, the "s" of
\* the prefix did not
C14_Witness ==
    /\ ResourceScrubbed
    /\ call.arg[2].val = <<"s", "u", "b", "n", "e", "t", "-", "s", "-", "1">>
    /\ call.ret.val[1] = "s"
    /\ call.ret.val[8] # "s"


(***************************************************************************)
(* The name generator past its base combinations.                          *)
(***************************************************************************)
\* pairwise distinct originals "N1" .. "N6", more than the generator holds
\* base combinations
ManyNameInputs == {<<"N", DIGITS[i + 1]>> : i \in 1..6}

\* engine.map_name(value), up to MaxNameCalls times
MapManyNames ==
    /\ ncalls < MaxNameCalls
    /\ \E value \in ManyNameInputs :
        \E o \in map_name(engine, value) :
            /\ ncalls' = ncalls + 1
            /\ engine' = o.eng
            /\ call' = [op |-> "map_name", arg |-> value, ret |-> o.ret,
                        hit |-> value \in DOMAIN engine.name_map]
            /\ first_ret' = Remember("map_name", value, o.ret)
            /\ UNCHANGED <<collector, args, column_handlers, previous_run, threads, lock>>

NextName == MapManyNames

\* an engine that starts empty and is used by map_name alone
SpecName == Init /\ [][NextName]_vars

\* C15: on an engine that starts empty, the synthetic names map_name has
\* returned for pairwise distinct originals are pairwise distinct, also when
\* there were more calls than theme x modifier pairs and the names carry a
\* numeric suffix.
C15_NamesDistinct ==
    \A o1, o2 \in DOMAIN engine.name_map :
        o1 # o2 => engine.name_map[o1] # engine.name_map[o2]

\* more originals were mapped than two rounds of the base combinations
\* hold: the generator is in its second numeric-suffix round
C15_Witness ==
    /\ Cardinality(DOMAIN engine.name_map) > 2 * VocabSize
    /\ engine.name_generator.count >= 2
    /\ call.op = "map_name" /\ ~call.hit


(***************************************************************************)
(* scrub.py: DataFrameScrub.  A table is its column names in order and,    *)
(* per column, the cells of its rows in order.                             *)
(***************************************************************************)
\* of the column names the tables hold, those that start with "x_" or "oci_"
_is_custom_column(column_name) == column_name \in {"x_Custom", "oci_Custom"}

\* a Series.map that hands the column back as it is
MapColumn_identity(handler, column_name, eng, col, cells) ==
    {[ret |-> cells, eng |-> eng, handler |-> handler, col |-> col]}

\* result[column_name].map(handler.scrub): the handler scrubs the cells in
\* row order, each call on the engine, scramble table and collector the call
\* before left; the outcomes [ret, eng, handler, col], ret the new cells
RECURSIVE MapColumn(_, _, _, _, _)
MapColumn(handler, column_name, eng, col, cells) ==
    IF cells = <<>>
    THEN {[ret |-> <<>>, eng |-> eng, handler |-> handler, col |-> col]}
    ELSE UNION {{[ret |-> <<o.ret>> \o r.ret, eng |-> r.eng,
                  handler |-> r.handler, col |-> r.col] :
                    r \in MapColumn([handler EXCEPT !._char_map = o.cm],
                                    column_name, o.eng,
                                    IF handler._collector /\ o.rec # None
                                    THEN record(col, column_name, o.rec[1], o.rec[2])
                                    ELSE col,
                                    Tail(cells))} :
                       o \in Handler_scrub(handler, eng, Head(cells))}

\* the loop over result.columns from the columns names on: the outcomes
\* [ret, eng, handlers, col], ret the table
RECURSIVE ScrubColumns(_, _, _, _, _)
ScrubColumns(handlers, eng, col, result, names) ==
    IF names = <<>>
    THEN {[ret |-> result, eng |-> eng, handlers |-> handlers, col |-> col]}
    ELSE IF Head(names) \notin DOMAIN handlers
    THEN ScrubColumns(handlers, eng, col, result, Tail(names))
    ELSE UNION {ScrubColumns([handlers EXCEPT ![Head(names)] = m.handler], m.eng, m.col,
                             [columns |-> result.columns,
                              data |-> DictSet(result.data, Head(names), m.ret)],
                             Tail(names)) :
                   m \in MapColumn(handlers[Head(names)], Head(names), eng, col,
                                   result.data[Head(names)])}

\* DataFrameScrub(column_handlers, remove_custom_columns).scrub(df)
DataFrameScrub_scrub(handlers, remove_custom_columns, eng, col, df) ==
    LET kept == SelectSeq(df.columns,
                          LAMBDA c : ~(remove_custom_columns /\ _is_custom_column(c)))
    IN  ScrubColumns(handlers, eng, col,
                     [columns |-> kept, data |-> [c \in Range(kept) |-> df.data[c]]],
                     kept)

\* two rows: an account id and a missing value, a column without a handler,
\* the same resource id twice
TABLE_USAGE ==
    [columns |-> <<"BillingAccountId", "Region", "ResourceId">>,
     data |-> [BillingAccountId |-> <<Str(<<"0", "7">>), None>>,
               Region |-> <<Str(<<"e", "u">>), Str(<<"e", "u">>)>>,
               ResourceId |-> <<Str(<<"v", "o", "l", "-", "v">>), Str(<<"v", "o", "l", "-", "v">>)>>]]

\* one row: a custom column that holds an account id, then {"k":"v"}
TABLE_CUSTOM ==
    [columns |-> <<"x_Custom", "Tags">>,
     data |-> [x_Custom |-> <<Str(<<"0", "7">>)>>,
               Tags |-> <<Str(<<"{", "\"", "k", "\"", ":", "\"", "v", "\"", "}">>)>>]]

\* no rows
TABLE_EMPTY ==
    [columns |-> <<"Region", "BillingAccountId">>,
     data |-> [Region |-> <<>>, BillingAccountId |-> <<>>]]

TableInputs == {TABLE_USAGE, TABLE_CUSTOM, TABLE_EMPTY}

\* scrub.scrub(df) of a DataFrameScrub built on the handlers of the session
ScrubTable ==
    /\ ncalls < MaxCalls
    /\ \E df \in TableInputs, remove_custom_columns \in BOOLEAN :
        \E o \in DataFrameScrub_scrub(column_handlers, remove_custom_columns,
                                      engine, collector, df) :
            /\ ncalls' = ncalls + 1
            /\ engine' = o.eng
            /\ column_handlers' = o.handlers
            /\ collector' = o.col
            /\ call' = [op |-> "DataFrameScrub.scrub",
                        arg |-> [df |-> df, remove_custom_columns |-> remove_custom_columns],
                        ret |-> o.ret, hit |-> FALSE]
            /\ UNCHANGED <<args, first_ret, previous_run, threads, lock>>

NextTable == ScrubTable

\* one session scrubbing tables
SpecTable == InitSession /\ [][NextTable]_vars

\* C16: with custom-column removal off, DataFrameScrub.scrub returns a table
\* with the columns of its input in the same order and as many rows; a cell
\* of a column without a handler is the input cell; a cell of a column with
\* a handler is what the column's handler returns for the input cell.
C16_PipelineShape ==
    (call.op = "DataFrameScrub.scrub" /\ ~call.arg.remove_custom_columns)
    => LET df  == call.arg.df
           out == call.ret
       IN  /\ out.columns = df.columns
           /\ \A c \in Range(df.columns) :
                  /\ Len(out.data[c]) = Len(df.data[c])
                  /\ \A i \in 1..Len(df.data[c]) :
                         IF c \in DOMAIN column_handlers
                         THEN {o.ret : o \in Handler_scrub(column_handlers[c], engine,
                                                           df.data[c][i])}
                              = {out.data[c][i]}
                         ELSE out.data[c][i] = df.data[c][i]

\* the two-row table came back with its account id replaced, the missing
\* value and the column without a handler as they were
C16_Witness ==
    /\ call.op = "DataFrameScrub.scrub"
    /\ ~call.arg.remove_custom_columns
    /\ call.arg.df = TABLE_USAGE
    /\ call.ret.data["BillingAccountId"][1] # TABLE_USAGE.data["BillingAccountId"][1]
    /\ call.ret.data["BillingAccountId"][2] = None
    /\ call.ret.data["Region"] = TABLE_USAGE.data["Region"]
    /\ call.ret.data["ResourceId"][1] # TABLE_USAGE.data["ResourceId"][1]


(***************************************************************************)
(* Setup of a session: get_column_handlers_for_dataset.                    *)
(***************************************************************************)
\* the registered names and one that is not registered
DatasetInputs == {"CostAndUsage", "ContractCommitment", "Unknown"}

\* the caller of get_column_handlers_for_dataset before the call, as cli.main
\* is at line 99: no handlers; the engine is None, or the fresh engine that
\* loaded a mappings file.  (The command line itself lets only registered
\* names through; the function is also called directly.)
InitSetup ==
    /\ args \in [dataset : DatasetInputs,
                 date_shift_days : DateShiftInputs,
                 export_mappings : BOOLEAN]
    /\ engine \in {None} \cup {load_mappings(MappingEngine, m) : m \in SnapshotInputs}
    /\ collector = MappingCollector
    /\ column_handlers = EmptyDict
    /\ call = [op |-> "init", arg |-> None, ret |-> None, hit |-> FALSE]
    /\ ncalls = 0
    /\ first_ret = EmptyDict
    /\ previous_run = EmptyDict
    /\ SingleThreaded

\* column_handlers, mapping_engine = get_column_handlers_for_dataset(...):
\* the error leaves the caller without handlers and ends the session
GetColumnHandlers ==
    /\ call.op = "init"
    /\ LET handlers == get_column_handlers_for_dataset(
                           args.dataset, [date_shift_days |-> args.date_shift_days],
                           args.export_mappings)
       IN  /\ call' = [op |-> "get_column_handlers_for_dataset", arg |-> args.dataset,
                       ret |-> handlers, hit |-> FALSE]
           /\ IF handlers = ValueError
              THEN UNCHANGED <<engine, column_handlers>>
              ELSE /\ engine' = IF engine = None THEN MappingEngine ELSE engine
                   /\ column_handlers' = handlers
    /\ UNCHANGED <<collector, args, ncalls, first_ret, previous_run, threads, lock>>

\* "07" in an account column and {"k":"v"} in the tag column, columns both
\* datasets have
SetupCells ==
    {<<"BillingAccountId", Str(<<"0", "7">>)>>,
     <<"SubAccountId", Str(<<"0", "7">>)>>,
     <<"Tags", Str(<<"{", "\"", "k", "\"", ":", "\"", "v", "\"", "}">>)>>}

\* the rows are scrubbed once the handlers are built
ScrubSetupCells ==
    /\ call.op # "init"
    /\ call.ret # ValueError
    /\ Scrub(SetupCells)

NextSetup == GetColumnHandlers \/ ScrubSetupCells

\* a session from its setup on
SpecSetup == InitSetup /\ [][NextSetup]_vars

\* C17: get_column_handlers_for_dataset called with a name that is not in
\* the registry raises; the call builds no handler, creates no engine and
\* writes no engine table and no collector entry, no row was scrubbed before
\* it and none is scrubbed after it.
C17_UnknownDatasetFatal ==
    [][/\ (/\ call.op = "init"
           /\ call'.op = "get_column_handlers_for_dataset"
           /\ call'.arg \notin DOMAIN DATASET_COLUMN_HANDLER_NAMES)
          => /\ call'.ret = ValueError
             /\ column_handlers' = EmptyDict
             /\ engine' = engine
             /\ collector' = MappingCollector
             /\ ncalls' = 0
       /\ call.ret = ValueError => call'.op # "scrub"]_vars

\* the call with the unknown name raised: there is no engine and no handler
C17_Witness ==
    /\ call.op = "get_column_handlers_for_dataset"
    /\ call.arg = "Unknown"
    /\ call.ret = ValueError
    /\ engine = None
    /\ column_handlers = EmptyDict


(***************************************************************************)
(* TagsHandler on texts.                                                   *)
(***************************************************************************)
\* [('k', 'v')] and {"k":"v"}; [('a', 'b'), ('k', 7)] and {"k":7} with a
\* number for a value; {"a":"v","k":0}; [1], whose element is no pair;
\* [('k' cut short; k=v
TagTexts ==
    {<<"[", "(", "'", "k", "'", ",", " ", "'", "v", "'", ")", "]">>,
     <<"{", "\"", "k", "\"", ":", "\"", "v", "\"", "}">>,
     <<"[", "(", "'", "a", "'", ",", " ", "'", "b", "'", ")", ",", " ", "(", "'", "k", "'", ",", " ", "7", ")", "]">>,
     <<"{", "\"", "k", "\"", ":", "7", "}">>,
     <<"{", "\"", "a", "\"", ":", "\"", "v", "\"", ",", "\"", "k", "\"", ":", "0", "}">>,
     <<"[", "1", "]">>,
     <<"[", "(", "'", "k", "'">>,
     <<"k", "=", "v">>}

TagCells == {<<"Tags", Str(t)>> : t \in TagTexts}

ScrubTagCells == Scrub(TagCells)

NextTags == ScrubTagCells

\* one session scrubbing texts in the tag column
SpecTags == InitSession /\ [][NextTags]_vars

\* what the handler reads the text as: [ok, val]
ParsedTags(text) ==
    IF text # <<>> /\ Head(text) = "[" THEN literal_eval(text)
    ELSE IF text # <<>> /\ Head(text) = "{" THEN json_loads(text)
    ELSE ParseError

\* C18: TagsHandler.scrub of a text returns and does not raise; a text that
\* parses as a list of (key, value) pairs of strings or as a JSON object of
\* string values comes back with the same keys in the same order and every
\* value replaced by its scramble; every other text, one with a value that is
\* no string or an element that is no pair included, comes back unchanged.
C18_TagsTextNonFatal ==
    (call.op = "scrub" /\ call.arg[1] = "Tags" /\ call.arg[2].kind = "str")
    => /\ call.ret.kind # "raise"
       /\ LET p == ParsedTags(strip(call.arg[2].val))
          IN  IF p.ok /\ \A i \in 1..Len(p.val) : Len(p.val[i]) = 2
              THEN LET q == ParsedTags(call.ret.val)
                   IN  /\ q.ok
                       /\ Len(q.val) = Len(p.val)
                       /\ \A i \in 1..Len(p.val) :
                              /\ q.val[i][1] = p.val[i][1]
                              /\ IsScrambleOf(column_handlers["Tags"]._char_map,
                                              p.val[i][2], q.val[i][2])
              ELSE call.ret = call.arg[2]


(***************************************************************************)
(* CommitmentDiscountIdHandler beside an AccountIdHandler.                 *)
(***************************************************************************)
\* "a/000011112222": the account id inside a larger value
EMBEDDED_A == <<"a", "/">> \o ACCOUNT_A

\* the account id, a value that holds it, and a missing value
CommitmentValues == {Str(ACCOUNT_A), Str(EMBEDDED_A), None}

\* every value in an account column and in the commitment column
CommitmentCells == {"SubAccountId", "CommitmentDiscountId"} \X CommitmentValues

ScrubCommitmentCells == Scrub(CommitmentCells)

NextCommitment == ScrubCommitmentCells

\* one session scrubbing the same values in both columns
SpecCommitment == InitSession /\ [][NextCommitment]_vars

\* C19: on any engine the session reaches, CommitmentDiscountIdHandler.scrub
\* of a value has the outcomes of AccountIdHandler.scrub: the same returned
\* value, the same engine tables afterwards, the same audit pair; whichever
\* of the two handlers scrubs a value first, every later scrub of the value
\* by either returns that result; and the audit pair of a commitment scrub
\* is in the collector under the commitment column.
C19_CommitmentDelegates ==
    /\ \A v \in CommitmentValues :
           CommitmentDiscountIdHandler_scrub(
               engine, column_handlers["CommitmentDiscountId"]._char_map, v)
           = AccountIdHandler_scrub(engine, column_handlers["SubAccountId"]._char_map, v)
    /\ call.op = "scrub"
       => /\ \A c \in {"SubAccountId", "CommitmentDiscountId"} :
                 <<"scrub", <<c, call.arg[2]>>>> \in DOMAIN first_ret
                 => first_ret[<<"scrub", <<c, call.arg[2]>>>>] = call.ret
          /\ (/\ call.arg[1] = "CommitmentDiscountId"
              /\ call.arg[2] # None
              /\ args.export_mappings)
             => /\ "CommitmentDiscountId" \in DOMAIN collector.mappings
                /\ <<strip(call.arg[2].val), call.ret.val>>
                       \in Range(collector.mappings["CommitmentDiscountId"])
    /\ ~args.export_mappings => collector = MappingCollector

\* the commitment handler scrubbed a value the account handler had scrubbed
\* before, with a collector attached
C19_Witness ==
    /\ call.op = "scrub"
    /\ call.arg = <<"CommitmentDiscountId", Str(EMBEDDED_A)>>
    /\ <<"scrub", <<"SubAccountId", Str(EMBEDDED_A)>>>> \in DOMAIN first_ret
    /\ call.ret # call.arg[2]
    /\ args.export_mappings
    /\ "SubAccountId" \in DOMAIN collector.mappings


\* ---------------------------------------------------------------------------
\* Number ids that can be drawn for themselves
\* ---------------------------------------------------------------------------

\* "9" and "99" have no leading zero, so _random_digits can draw them; "07"
\* has one, so no draw equals it; "5" is a one-digit id like "9"
SelfInputs == {<<"9">>, <<"9", "9">>, <<"0", "7">>, <<"5">>}

MapSelf ==
    \E value \in SelfInputs :
        MapCall("map_number_id", value, map_number_id(engine, value),
                value \in DOMAIN engine.number_id_map)

NextSelf == MapSelf

\* map_number_id calls on one fresh engine
SpecSelf == Init /\ [][NextSelf]_vars

\* C20: a synthetic number id differs from its original: for every
\* non-empty digit string o not yet in the NumberId table,
\* map_number_id(o) returns a value different from o.
C20_NumberIdDiffers ==
    (/\ call.op = "map_number_id"
     /\ ~call.hit
     /\ call.arg # <<>>
     /\ str_isdigit(call.arg))
    => call.ret # call.arg

\* ---------------------------------------------------------------------------
\* Map calls of two threads on one engine, statement by statement
\* ---------------------------------------------------------------------------

\* one unseen number id and one unseen UUID
RaceInputs == {<<"map_number_id", <<"0", "7">>>>, <<"map_uuid", UUID_U>>}

\* with and without one mutual-exclusion boundary around the whole
\* lookup-or-insert
InitRace ==
    /\ engine = MappingEngine
    /\ collector = MappingCollector
    /\ args = [dataset |-> "CostAndUsage", date_shift_days |-> 0, export_mappings |-> TRUE]
    /\ column_handlers = EmptyDict
    /\ call = [op |-> "init", arg |-> None, ret |-> None, hit |-> FALSE]
    /\ ncalls = 0
    /\ first_ret = EmptyDict
    /\ previous_run = EmptyDict
    /\ threads = [t \in Threads |-> Idle]
    /\ lock \in {[enabled |-> e, holder |-> {}] : e \in BOOLEAN}

\* if value in self._X_map
Present_never(eng, op, value) == FALSE

Present(eng, op, value) == value \in DOMAIN TableOf(eng, op)

\* replacement = _random_digits(len(value)) / str(uuid.uuid4())
Replacements(op, value) ==
    IF op = "map_number_id" THEN _random_digits(Len(value)) ELSE uuid4

\* self._X_map[value] = replacement
Store(eng, op, value, replacement) ==
    IF op = "map_number_id"
    THEN [eng EXCEPT !.number_id_map = DictSet(@, value, replacement)]
    ELSE [eng EXCEPT !.uuid_map = DictSet(@, value, replacement)]

Acquire(t) == IF lock.enabled THEN [lock EXCEPT !.holder = {t}] ELSE lock

Release == IF lock.enabled THEN [lock EXCEPT !.holder = {}] ELSE lock

\* a thread enters map_X(value) and runs the membership test; on a hit it
\* returns the table's entry
ThreadLookup(t) ==
    /\ ncalls < MaxCalls
    /\ threads[t].pc \in {"idle", "done"}
    /\ lock.enabled => lock.holder = {}
    /\ \E in \in RaceInputs :
        /\ ncalls' = ncalls + 1
        /\ IF Present(engine, in[1], in[2])
           THEN /\ threads' = [threads EXCEPT ![t] =
                       [pc |-> "done", op |-> in[1], arg |-> in[2], replacement |-> None,
                        ret |-> TableOf(engine, in[1])[in[2]]]]
                /\ lock' = lock
           ELSE /\ threads' = [threads EXCEPT ![t] =
                       [pc |-> "generate", op |-> in[1], arg |-> in[2], replacement |-> None,
                        ret |-> None]]
                /\ lock' = Acquire(t)
    /\ UNCHANGED <<engine, collector, args, column_handlers, call, first_ret, previous_run>>

\* the thread draws the replacement
ThreadGenerate(t) ==
    /\ threads[t].pc = "generate"
    /\ \E replacement \in Replacements(threads[t].op, threads[t].arg) :
        threads' = [threads EXCEPT ![t].pc = "insert", ![t].replacement = replacement]
    /\ UNCHANGED <<engine, collector, args, column_handlers, call, ncalls, first_ret,
                   previous_run, lock>>

\* the thread stores the replacement and returns it
ThreadInsert(t) ==
    /\ threads[t].pc = "insert"
    /\ engine' = Store(engine, threads[t].op, threads[t].arg, threads[t].replacement)
    /\ threads' = [threads EXCEPT ![t].pc = "done", ![t].ret = threads[t].replacement]
    /\ lock' = Release
    /\ UNCHANGED <<collector, args, column_handlers, call, ncalls, first_ret, previous_run>>

NextRace == \E t \in Threads : ThreadLookup(t) \/ ThreadGenerate(t) \/ ThreadInsert(t)

SpecRace == InitRace /\ [][NextRace]_vars

\* thread t has returned from a call whose value the engine's table does
\* not hold for the original
Disagrees(t) ==
    /\ threads[t].pc = "done"
    /\ TableOf(engine, threads[t].op)[threads[t].arg] # threads[t].ret

\* C21: when the whole lookup-or-insert runs under one mutual-exclusion
\* boundary, every caller of map_X obtains the value the table holds for the
\* original, so all callers of one original obtain the same value.
C21_LockedFirstSeenWins ==
    lock.enabled =>
        /\ \A t \in Threads : ~Disagrees(t)
        /\ \A t, u \in Threads :
               (/\ threads[t].pc = "done" /\ threads[u].pc = "done"
                /\ threads[t].op = threads[u].op /\ threads[t].arg = threads[u].arg)
               => threads[t].ret = threads[u].ret

\* without the lock two threads have called map_X on the same unseen
\* original, each has generated and returned its own value, and the later
\* insert has overwritten the earlier one
C21_Witness ==
    /\ ~lock.enabled
    /\ \E t, u \in Threads :
        /\ threads[t].pc = "done" /\ threads[u].pc = "done"
        /\ threads[t].op = threads[u].op /\ threads[t].arg = threads[u].arg
        /\ threads[t].replacement # None /\ threads[u].replacement # None
        /\ threads[t].ret # threads[u].ret
        /\ Disagrees(t)
        /\ ~Disagrees(u)

\* ---------------------------------------------------------------------------
\* The fields of an ARN
\* ---------------------------------------------------------------------------

\* "arn:a:b:c:07:b": field 4 is digits, but not twelve
ARN_TWO_DIGITS == <<"a", "r", "n", ":", "a", ":", "b", ":", "c", ":", "0", "7", ":", "b">>

\* "arn:a:b:c:000011112222:b": field 4 is the account id
ARN_TWELVE_DIGITS == <<"a", "r", "n", ":", "a", ":", "b", ":", "c", ":">> \o ACCOUNT_A \o <<":", "b">>

\* "arn:b ": fewer than six fields and a trailing blank
ARN_SHORT_PADDED == <<"a", "r", "n", ":", "b", " ">>

ArnFieldCells ==
    {<<"ResourceId", Str(a)>> :
        a \in {ARN_TWELVE_DIGITS, ARN_EMPTY_ACCOUNT, ARN_TWO_DIGITS, ARN_SHORT_PADDED}}

ScrubArnFieldCells == Scrub(ArnFieldCells)

NextArnFields == ScrubArnFieldCells

\* one session scrubbing ARNs with and without an account in field 4
SpecArnFields == InitSession /\ [][NextArnFields]_vars

\* the last call scrubbed a value whose text, as ResourceIdHandler reads it,
\* starts with "arn:"
ArnScrubbed ==
    /\ ResourceScrubbed
    /\ startswith(strip(call.arg[2].val), <<"a", "r", "n", ":">>)

TASK == <<"t", "a", "s", "k">>
NET == <<"n", "e", "t">>
APP == <<"a", "p", "p">>

\* "arn:a:b:c::": five fields in front of the resource
ARN_PREFIX == <<"a", "r", "n", ":", "a", ":", "b", ":", "c", ":", ":">>

\* "task/net/k": a resource type in front, then a scheme
ARN_TYPE_FIRST == ARN_PREFIX \o TASK \o <<"/">> \o NET \o <<"/", "k">>

\* "k/task/app ": a resource type in second place, a scheme last, and a
\* trailing blank
ARN_TYPE_SECOND == ARN_PREFIX \o <<"k", "/">> \o TASK \o <<"/">> \o APP \o <<" ">>

ArnPathCells ==
    {<<"ResourceId", Str(a)>> : a \in {ARN_TYPE_FIRST, ARN_TYPE_SECOND}}

ScrubArnPathCells == Scrub(ArnPathCells)

NextArnPath == ScrubArnPathCells

\* one session scrubbing ARNs with resource paths
SpecArnPath == InitSession /\ [][NextArnPath]_vars

\* the '/'-separated segments of what follows field 4
ResourceSegments(arn) ==
    LET parts == Split(arn, ":")
    IN  Split(Join(<<":">>, SubSeq(parts, 6, Len(parts))), "/")

\* the segment with each UUID in it replaced by the engine's entry for it
WithMappedUuids(seg) ==
    {u.ret : u \in ReplaceUuids(engine, seg, FindUuids(seg, 1))}

\* the last call scrubbed an ARN of at least six fields
ArnPathScrubbed == ArnScrubbed /\ Len(Split(strip(call.arg[2].val), ":")) >= 6

\* C23 as stated: every segment of the resource part that is in the
\* resource-type allow-list or is "net" or "app" is emitted verbatim
\* whatever its position, and every other segment is emitted as its
\* character scramble.
C23_KeywordsAnywhere ==
    ArnPathScrubbed =>
        LET in  == ResourceSegments(strip(call.arg[2].val))
            out == ResourceSegments(call.ret.val)
            cm  == column_handlers["ResourceId"]._char_map
        IN  /\ Len(out) = Len(in)
            /\ \A k \in 1..Len(in) :
                   IF in[k] \in aws_resource_types \cup {NET, APP}
                   THEN out[k] = in[k]
                   ELSE IsScrambleOf(cm, in[k], out[k])

\* C23 (amended): a member of the resource-type allow-list is emitted
\* verbatim only as the first segment of the resource part, "net" and "app"
\* are emitted verbatim in any position, and every other segment, a
\* resource type in a later position included, is emitted as the character
\* scramble of the segment with its UUIDs replaced by their map_uuid values.
C23_KeywordsFirst ==
    ArnPathScrubbed =>
        LET in  == ResourceSegments(strip(call.arg[2].val))
            out == ResourceSegments(call.ret.val)
            cm  == column_handlers["ResourceId"]._char_map
        IN  /\ Len(out) = Len(in)
            /\ \A k \in 1..Len(in) :
                   IF (k = 1 /\ in[k] \in aws_resource_types) \/ in[k] \in {NET, APP}
                   THEN out[k] = in[k]
                   ELSE \E replaced \in WithMappedUuids(in[k]) :
                            IsScrambleOf(cm, replaced, out[k])

\* "task" in second place came back scrambled, after "task" in front was kept
C23_Witness ==
    /\ ArnPathScrubbed
    /\ call.arg[2] = Str(ARN_TYPE_SECOND)
    /\ ResourceSegments(call.ret.val)[2] # TASK
    /\ ResourceSegments(call.ret.val)[3] = APP
    /\ <<"scrub", <<"ResourceId", Str(ARN_TYPE_FIRST)>>>> \in DOMAIN first_ret
    /\ ResourceSegments(first_ret[<<"scrub", <<"ResourceId", Str(ARN_TYPE_FIRST)>>>>].val)[1] = TASK

\* ---------------------------------------------------------------------------
\* A UUID in the resource path of an ARN
\* ---------------------------------------------------------------------------

\* "arn:a:b:c::k/<uuid>": the second segment is a UUID
ARN_UUID == ARN_PREFIX \o <<"k", "/">> \o UUID_V

\* "arn:a:b:c::k-<uuid>": the UUID is the tail of a segment
ARN_UUID_TAIL == ARN_PREFIX \o <<"k", "-">> \o UUID_V

\* the UUID in two ARNs of the resource column and alone in an account column
ArnUuidCells ==
    {<<"ResourceId", Str(ARN_UUID)>>,
     <<"ResourceId", Str(ARN_UUID_TAIL)>>,
     <<"BillingAccountId", Str(UUID_V)>>}

ScrubArnUuidCells == Scrub(ArnUuidCells)

NextArnUuid == ScrubArnUuidCells

\* one session scrubbing the UUID inside ARNs and alone
SpecArnUuid == InitSession /\ [][NextArnUuid]_vars

\* C24: when ResourceIdHandler scrubs an ARN whose resource part contains a
\* UUID u, the output holds, at u's position, the synthetic UUID the shared
\* engine's map_uuid(u) returns, not a further-transformed string.
C24_ArnUuidMapped ==
    ArnPathScrubbed =>
        LET in  == ResourceSegments(strip(call.arg[2].val))
            out == ResourceSegments(call.ret.val)
        IN  \A k \in 1..Len(in) : \A i \in 1..Len(in[k]) :
                MatchUuid(in[k], i) > 0 =>
                    /\ SubSeq(in[k], i, i + 35) \in DOMAIN engine.uuid_map
                    /\ k <= Len(out)
                    /\ SubSeq(out[k], i, i + 35) = engine.uuid_map[SubSeq(in[k], i, i + 35)]

\* ---------------------------------------------------------------------------
\* The segment after "subscriptions"
\* ---------------------------------------------------------------------------

\* "/subscriptions/<uuid>": the subscription is a UUID
PATH_SUBSCRIPTION_UUID == <<"/">> \o SUBSCRIPTIONS \o <<"/">> \o UUID_V

\* "/subscriptions/s": the subscription is no UUID
PATH_SUBSCRIPTION_NAME == <<"/">> \o SUBSCRIPTIONS \o <<"/", "s">>

\* "/subscriptions/<uuid>s": the subscription begins with a UUID
PATH_SUBSCRIPTION_LONG == <<"/">> \o SUBSCRIPTIONS \o <<"/">> \o UUID_V \o <<"s">>

SubscriptionCells ==
    {<<"ResourceId", Str(p)>> :
        p \in {PATH_SUBSCRIPTION_UUID, PATH_SUBSCRIPTION_NAME, PATH_SUBSCRIPTION_LONG}}

ScrubSubscriptionCells == Scrub(SubscriptionCells)

NextSubscription == ScrubSubscriptionCells

\* one session scrubbing paths whose subscription is and is not a UUID
SpecSubscription == InitSession /\ [][NextSubscription]_vars

\* the last call scrubbed a hierarchical path
PathScrubbed ==
    /\ ResourceScrubbed
    /\ startswith(strip(call.arg[2].val), <<"/">> \o SUBSCRIPTIONS \o <<"/">>)

\* the indices of the segments that follow a "subscriptions" keyword
AfterSubscriptions(p) ==
    {k + 1 : k \in {j \in KeywordPositions(p, 1) : p[j] = SUBSCRIPTIONS /\ j + 1 <= Len(p)}}

\* C25 as stated: the segment that follows "subscriptions" is replaced by
\* map_uuid of that segment, whether or not it has the shape of a UUID, and
\* is entered in the engine's UUID table.
C25_SubscriptionMapped ==
    PathScrubbed =>
        LET p == Split(strip(call.arg[2].val), "/")
            q == Split(call.ret.val, "/")
        IN  \A k \in AfterSubscriptions(p) :
                /\ p[k] \in DOMAIN engine.uuid_map
                /\ k <= Len(q)
                /\ q[k] = engine.uuid_map[p[k]]

\* C25 (amended): the segment that follows "subscriptions" is replaced by
\* map_uuid of that segment and entered in the engine's UUID table exactly
\* when it begins with a UUID; a segment of another shape gets no entry
\* in the UUID table and is scrubbed like any other segment (a plain name is
\* scrambled).
C25_SubscriptionMappedIfUuid ==
    PathScrubbed =>
        LET p  == Split(strip(call.arg[2].val), "/")
            q  == Split(call.ret.val, "/")
            cm == column_handlers["ResourceId"]._char_map
        IN  \A k \in AfterSubscriptions(p) :
                /\ k <= Len(q)
                /\ IF MatchUuid(p[k], 1) > 0
                   THEN /\ p[k] \in DOMAIN engine.uuid_map
                        /\ q[k] = engine.uuid_map[p[k]]
                   ELSE /\ p[k] \notin DOMAIN engine.uuid_map
                        /\ (/\ p[k] \notin {SUBSCRIPTIONS, RESOURCEGROUPS, PROVIDERS}
                            /\ ~startswith(p[k], <<"m", "i", "c", "r", "o", "s", "o", "f", "t", ".">>)
                            /\ FindUuids(p[k], 1) = <<>>)
                           => IsScrambleOf(cm, p[k], q[k])

\* a subscription that is no UUID came back scrambled and without an entry in
\* the UUID table, after one that is a UUID was mapped
C25_Witness ==
    /\ PathScrubbed
    /\ call.arg[2] = Str(PATH_SUBSCRIPTION_NAME)
    /\ <<"s">> \notin DOMAIN engine.uuid_map
    /\ UUID_V \in DOMAIN engine.uuid_map
    /\ <<"scrub", <<"ResourceId", Str(PATH_SUBSCRIPTION_UUID)>>>> \in DOMAIN first_ret

\* ---------------------------------------------------------------------------
\* The scramble table of one handler
\* ---------------------------------------------------------------------------

\* "Ab1-", "b-A2" and "1b": plain values that share characters of each class
ScrambleCells ==
    {<<"ResourceId", Str(<<"A", "b", "1", "-">>)>>,
     <<"ResourceId", Str(<<"b", "-", "A", "2">>)>>,
     <<"ResourceId", Str(<<"1", "b">>)>>}

ScrubScrambleCells == Scrub(ScrambleCells)

NextScramble == ScrubScrambleCells

\* one session scrubbing plain values in the resource column
SpecScramble == InitSession /\ [][NextScramble]_vars

\* the replacement r is of the class of the character c
SameClass(c, r) ==
    IF isupper(c) THEN isupper(r)
    ELSE IF islower(c) THEN islower(r)
    ELSE IF isdigit(c) THEN isdigit(r)
    ELSE r = c

\* C26: over any sequence of scrub calls on one handler each character keeps
\* the replacement it was first given (the scramble table only grows), each
\* replacement is of the class of its character and a character of no class
\* maps to itself, so a scrambled string has the length and the
\* upper/lower/digit/punctuation pattern of its input; scrambling leaves the
\* MappingEngine as it was.
C26_Scrambler ==
    [][LET old == column_handlers["ResourceId"]._char_map
           new == column_handlers'["ResourceId"]._char_map
           original == call'.arg[2].val
           result   == call'.ret.val
       IN  /\ \A c \in DOMAIN old : c \in DOMAIN new /\ new[c] = old[c]
           /\ \A c \in DOMAIN new : SameClass(c, new[c])
           /\ call'.op = "scrub"
              => /\ Len(result) = Len(original)
                 /\ \A i \in 1..Len(original) :
                        /\ original[i] \in DOMAIN new
                        /\ result[i] = new[original[i]]
                        /\ SameClass(original[i], result[i])
                 /\ engine' = engine]_vars

\* a value was scrambled with replacements drawn by an earlier scrub: the
\* table holds a character of each class
C26_Witness ==
    /\ call.op = "scrub"
    /\ call.arg[2] = Str(<<"1", "b">>)
    /\ <<"scrub", <<"ResourceId", Str(<<"A", "b", "1", "-">>)>>>> \in DOMAIN first_ret
    /\ {"A", "b", "1", "-"} \subseteq DOMAIN column_handlers["ResourceId"]._char_map
    /\ call.ret.val = <<first_ret[<<"scrub", <<"ResourceId", Str(<<"A", "b", "1", "-">>)>>>>].val[3],
                        first_ret[<<"scrub", <<"ResourceId", Str(<<"A", "b", "1", "-">>)>>>>].val[2]>>
    /\ call.ret # call.arg[2]

\* ---------------------------------------------------------------------------
\* The dispatch of the AccountIdHandler
\* ---------------------------------------------------------------------------

\* "07" (all digits), "sp" (no pattern) and a UUID whose last group is twelve
\* digits (two patterns match in it); the first two are known to the engine
\* from the loaded snapshot
DispatchCells ==
    {<<"BillingAccountId", Str(<<"0", "7">>)>>,
     <<"BillingAccountId", Str(<<"s", "p">>)>>,
     <<"BillingAccountId", Str(UUID_U)>>}

ScrubDispatchCells == Scrub(DispatchCells)

NextDispatch == ScrubDispatchCells

\* the component mappings of an earlier run, which scrubbed "07" and "sp"
DispatchSnapshot ==
    [NumberId |-> (<<"0", "7">> :> <<"1", "9">>),
     UUID     |-> (<<"s", "p">> :> UUID_V)]

\* a session started with --load-mappings
InitDispatch ==
    /\ args \in [dataset : {"CostAndUsage"},
                 date_shift_days : {0},
                 export_mappings : {FALSE}]
    /\ engine = load_mappings(MappingEngine, DispatchSnapshot)
    /\ collector = MappingCollector
    /\ column_handlers =
           get_column_handlers_for_dataset(
               args.dataset, [date_shift_days |-> args.date_shift_days], args.export_mappings)
    /\ call = [op |-> "init", arg |-> None, ret |-> None, hit |-> FALSE]
    /\ ncalls = 0
    /\ first_ret = EmptyDict
    /\ previous_run = EmptyDict
    /\ SingleThreaded

\* one session scrubbing values of each kind in an account column
SpecDispatch == InitDispatch /\ [][NextDispatch]_vars

\* the engine's entry for a matched occurrence
Entry(re, match) ==
    LET table == CASE re = "_12DIGIT_ACCOUNT_ID_RE" -> engine.number_id_map
                   [] re = "_UUID_RE"               -> engine.uuid_map
                   [] re = "_PROFILE_CODE_RE"       -> engine.profile_code_map
    IN  IF match \in DOMAIN table THEN table[match] ELSE <<"?">>

\* one pass over s from index i on: every occurrence of the pattern is
\* replaced by the engine's entry for it, every other character is kept
RECURSIVE PassFrom(_, _, _)
PassFrom(re, s, i) ==
    LET j == NextMatch(re, s, i)
        n == MatchLen(re, s, j)
    IN  IF j = 0 THEN SubSeq(s, i, Len(s))
        ELSE SubSeq(s, i, j - 1) \o Entry(re, SubSeq(s, j, j + n - 1)) \o PassFrom(re, s, j + n)

PriorSnapshotInputs ==
    {get_all_mappings(o.eng) : o \in map_name(MappingEngine, <<"N", "1">>)}

\* MappingEngine() followed by load_mappings(snapshot): the tables are
\* filled, _name_generator is None
InitSeeded ==
    /\ engine \in {load_mappings(MappingEngine, s) : s \in PriorSnapshotInputs}
    /\ collector = MappingCollector
    /\ args = [dataset |-> "CostAndUsage", date_shift_days |-> 0, export_mappings |-> TRUE]
    /\ column_handlers = EmptyDict
    /\ call = [op |-> "load_mappings", arg |-> None, ret |-> None, hit |-> FALSE]
    /\ ncalls = 0
    /\ first_ret = EmptyDict
    /\ previous_run = EmptyDict
    /\ SingleThreaded

NextSeeded == MapManyNames

\* a seeded engine used by map_name alone
SpecSeeded == InitSeeded /\ [][NextSeeded]_vars

\* C28: on an engine whose Name table was filled by load_mappings from a
\* previous snapshot, the name map_name returns for a new original is not
\* a name the table assigns to a different original.
C28_SeededNamesDistinct ==
    (call.op = "map_name" /\ ~call.hit) =>
        \A o \in DOMAIN engine.name_map \ {call.arg} :
            engine.name_map[o] # call.ret

\* ---------------------------------------------------------------------------
\* The audit records of a session
\* ---------------------------------------------------------------------------

\* an account id and a resource id, each bare and padded with a blank
AuditCells ==
    {<<"BillingAccountId", Str(<<"0", "7">>)>>,
     <<"BillingAccountId", Str(<<"0", "7", " ">>)>>,
     <<"ResourceId", Str(<<"b">>)>>,
     <<"ResourceId", Str(<<" ", "b">>)>>}

ScrubAuditCells == Scrub(AuditCells)

NextAudit == ScrubAuditCells

\* one session, the collector attached at setup when export is on
SpecAudit == InitSession /\ [][NextAudit]_vars

\* the scrubs of a column whose text, as the handler reads it, is original
ScrubsOf(column, original) ==
    {k \in DOMAIN first_ret :
        /\ k[1] = "scrub"
        /\ k[2][1] = column
        /\ k[2][2].kind = "str"
        /\ strip(k[2][2].val) = original}

\* C29: for every audit pair (column, o, s) of the collector, s is what the
\* column's handler returned the first time it scrubbed o, and the scrub
\* just made of o returned s again; with export on, every scrubbed text has
\* its pair.
C29_AuditAgrees ==
    /\ \A column \in DOMAIN collector.mappings :
           \A pair \in Range(collector.mappings[column]) :
               /\ \A k \in ScrubsOf(column, pair[1]) : first_ret[k] = Str(pair[2])
               /\ (/\ call.op = "scrub"
                   /\ call.arg[1] = column
                   /\ call.arg[2].kind = "str"
                   /\ strip(call.arg[2].val) = pair[1])
                  => call.ret = Str(pair[2])
    /\ (call.op = "scrub" /\ args.export_mappings /\ call.arg[2].kind = "str")
       => /\ call.arg[1] \in DOMAIN collector.mappings
          /\ \E pair \in Range(collector.mappings[call.arg[1]]) :
                 pair[1] = strip(call.arg[2].val)

\* the padded account id was scrubbed after the bare one and a resource id:
\* the account column holds one pair for both
C29_Witness ==
    /\ args.export_mappings
    /\ call.op = "scrub"
    /\ call.arg = <<"BillingAccountId", Str(<<"0", "7", " ">>)>>
    /\ <<"scrub", <<"BillingAccountId", Str(<<"0", "7">>)>>>> \in DOMAIN first_ret
    /\ "ResourceId" \in DOMAIN collector.mappings
    /\ Len(collector.mappings["BillingAccountId"]) = 1
    /\ collector.mappings["BillingAccountId"][1] = <<<<"0", "7">>, call.ret.val>>

\* ---------------------------------------------------------------------------
\* Synthetic values under the later passes of the AccountIdHandler
\* ---------------------------------------------------------------------------

\* a UUID whose last group is twelve digits and a UUID of letters
SurviveCells ==
    {<<"BillingAccountId", Str(UUID_U)>>,
     <<"BillingAccountId", Str(UUID_V)>>}

ScrubSurviveCells == Scrub(SurviveCells)

NextSurvive == ScrubSurviveCells

\* one session scrubbing UUIDs in an account column
SpecSurvive == InitSession /\ [][NextSurvive]_vars

\* the occurrences of the pattern in s from index i on
RECURSIVE MatchesFrom(_, _, _)
MatchesFrom(re, s, i) ==
    LET j == NextMatch(re, s, i)
        n == MatchLen(re, s, j)
    IN  IF j = 0 THEN {}
        ELSE {SubSeq(s, j, j + n - 1)} \cup MatchesFrom(re, s, j + n)

\* sub in s
Contains(s, sub) ==
    \E i \in 1..(Len(s) - Len(sub) + 1) : SubSeq(s, i, i + Len(sub) - 1) = sub

\* C30: in the multi-pattern branch of AccountIdHandler the synthetic
\* 12-digit id put in by the first pass and the synthetic UUID put in by the
\* second pass (the UUID table's entry for the UUID the second pass read)
\* are in the returned string verbatim.
C30_SyntheticSurvives ==
    (/\ call.op = "scrub"
     /\ call.arg[1] = "BillingAccountId"
     /\ call.arg[2].kind = "str"
     /\ ~str_isdigit(strip(call.arg[2].val)))
    => LET value == strip(call.arg[2].val)
           after_ids == PassFrom("_12DIGIT_ACCOUNT_ID_RE", value, 1)
       IN  /\ \A id \in MatchesFrom("_12DIGIT_ACCOUNT_ID_RE", value, 1) :
                  Contains(call.ret.val, engine.number_id_map[id])
           /\ \A u \in MatchesFrom("_UUID_RE", after_ids, 1) :
                  Contains(call.ret.val, engine.uuid_map[u])
=============================================================================
